---------------------------- MODULE Spec2Model ----------------------------
(***************************************************************************)
(* Model of velox/exec/Task.cpp: the Task/Driver thread protocol (enter,   *)
(* leave, suspended sections, yield), pause / resume / terminate, error    *)
(* propagation and the Task-scoped memory reclaimer.                       *)
(*                                                                         *)
(* Every critical section taken under Task::mutex_ is one atomic step; the *)
(* work a function does between two critical sections is a step of its    *)
(* own, so that the interleavings the lock allows are the interleavings    *)
(* of the model.                                                           *)
(***************************************************************************)
EXTENDS Integers, FiniteSets, Sequences, TLC

\* Number of Drivers of the (single, ungrouped) pipeline of the task whose
\* thread protocol and split feeding are followed in full.
NumDrivers == 1
\* Number of slots of drivers_: the most Drivers a task is started with.
MaxDrivers == 2
\* Number of task-completion futures the external caller asks for.
MaxCompletionFutures == 1
\* Number of MemoryReclaimer::reclaim invocations by the arbitrator.
MaxReclaims == 2
\* Nesting depth of suspended sections a Driver thread opens.
MaxSuspensions == 2
\* Number of data splits the split source adds to the task.
MaxSplits == 2
\* Largest sequenceId the split source uses.
MaxSequenceId == 1
\* Number of split groups the split source names besides the ungrouped one.
NumGroups == 1
\* Largest maxPreloadSplits a source operator passes to getSplitOrFuture.
MaxPreload == 2
\* Number of split-wait promises outstanding in the split stores.
MaxWaiters == 1
\* Number of requestBarrier() calls that return a future.
MaxBarriers == 2
\* Batches appended to one data sink.
MaxAppends == 2
\* Calls made on one data sink.
MaxSinkCalls == 6
\* Split groups of a plan with grouped execution.
MaxSplitGroups == 2
\* Largest concurrentSplitGroups start() is called with.
MaxConcurrentSplitGroups == 2
\* Number of Task::next calls made on a serial task.
MaxNextCalls == 2
\* Number of times a Driver of a serial task reports it is blocked.
MaxBlocks == 1
\* Producers of a TaskQueue, vectors they enqueue, largest retained size of
\* a vector and largest maxBytes_ of a queue.
NumProducers == 2
MaxVectors == 3
MaxVectorBytes == 2
MaxQueueBytes == 4

Drivers == 1..MaxDrivers
Producers == 1..NumProducers

\* The threads that call into the Task.
DriverAgent(d) == <<"driver", d>>
CallerAgent == <<"caller", 0>>
ReclaimAgent == <<"reclaimer", 0>>
Agents == {DriverAgent(d) : d \in Drivers} \cup {CallerAgent, ReclaimAgent}

\* The leaf plan nodes: the table scan at the source of each Driver's pipeline.
Leaves == 1..NumDrivers
\* kUngroupedGroupId and the split groups.
kUngroupedGroupId == 0
Groups == 1..NumGroups
StoreIds == {kUngroupedGroupId} \cup Groups
SplitIds == 1..MaxSplits
\* The split groups of a plan, and the keys of splitGroupStates_.
SplitGroupIds == 1..MaxSplitGroups
GroupIds == {kUngroupedGroupId} \cup SplitGroupIds
\* The pipelines of a plan.
Pipelines == {0, 1}
\* The plans: both pipelines ungrouped; both grouped; or the output pipeline
\* grouped and the other ungrouped.
Plans ==
  {p \in [execution : {"ungrouped", "grouped", "mixed"},
          numSplitGroups : SplitGroupIds,
          partitionedOutput : BOOLEAN] :
     p.execution = "ungrouped" => p.numSplitGroups = 1}
\* The plan of a task with ungrouped execution and no partitioned output.
UngroupedPlan ==
  [execution |-> "ungrouped", numSplitGroups |-> 1,
   partitionedOutput |-> FALSE]
\* The barrier split made by Split::createBarrier and a data split with a
\* connector split whose dataSource is "none", "loading" or "ready".
BarrierSplit == [id |-> 0, barrier |-> TRUE, dataSource |-> "none"]
DataSplit(i) == [id |-> i, barrier |-> FALSE, dataSource |-> "none"]

TerminalStates == {"Finished", "Canceled", "Aborted", "Failed"}
TaskStates == {"Running"} \cup TerminalStates

VARIABLES
  \* ---- Task fields ----
  state_,                \* TaskState
  exception_,            \* "none" or the stored error
  pauseRequested_,
  terminateRequested_,
  toYield_,
  numThreads_,
  numRunningDrivers_,
  numFinishedDrivers_,
  numTotalDrivers_,
  numDriversUngrouped_,
  numFinishedOutputDrivers, \* splitGroupStates_[kUngroupedGroupId]
  drivers_,              \* [Drivers -> BOOLEAN]: slot holds a Driver
  threadFinishPromises_, \* pending finish promises, named by kind and owner
  taskCompletionPromises_, \* number of pending task-completion promises
  started,               \* "no", "factories", "yes", "failed": progress of start()
  mode_,                 \* "kParallel" or "kSerial"
  \* ---- splitsStates_ of each leaf plan node ----
  groupSplitsStores,     \* [Leaves -> SUBSET StoreIds]: the stores that exist
  splits,                \* [Leaves -> [StoreIds -> Seq(split)]]
  splitPromises,         \* number of waiter promises of each store
  storeNoMoreSplits,     \* SplitsStore::noMoreSplits
  noMoreSplits,          \* SplitsState::noMoreSplits
  maxSequenceId,
  seenSplitGroups_,
  queuedSplitGroups_,
  numTotalSplits,        \* taskStats_.numTotalSplits
  numQueuedSplits,       \* taskStats_.numQueuedSplits
  \* ---- barrier ----
  barrierRequested_,
  barrierFinishPromises_, \* number of pending barrier-finish promises
  numDriversUnderBarrier_,
  numBarriers,           \* taskStats_.numBarriers
  \* ---- ThreadState of each Driver ----
  isEnqueued,
  isTerminated,
  thread,                \* ThreadState::isOnThread()
  numSuspensions,
  hasBlockingFuture,
  \* ---- Driver ----
  driverBarrier,         \* Driver::startBarrier was called, finishBarrier not yet
  gotBarrier,            \* the source operator has received the barrier split
  closed,                \* Driver::closed_
  queued,                \* Driver::run invocations pending in the executor
  dpc,                   \* position of the thread running the Driver
  dret,                  \* StopReason runInternal is about to return
  requeue,               \* threads of Driver::run about to re-enqueue after a yield
  \* ---- a terminate() / setError() call in progress, per calling agent ----
  tst,                   \* stage of the call: "idle", "start", "notify"
  toff,                  \* terminate's offThreadDrivers
  tprom,                 \* promises moved into taskCompletionNotifier
  tbar,                  \* terminate's barrierPromises
  \* ---- external caller ----
  cpc,
  \* ---- Task::MemoryReclaimer::reclaim ----
  rpc,
  rounds,
  rMaxWait,              \* maxWaitMs argument: 0 or 1 (non-zero)
  rOutcome,              \* how the invocation ends
  rClose,                \* resume()'s offThreadDrivers
  \* ---- observations (history variables) ----
  inDriver,              \* threads between enter()==kNone and leave()
  closeByTaskCount,      \* calls of Driver::closeByTask per Driver
  finishedCount,         \* times the Driver was counted by driverClosedLocked
  listenerCalls,         \* calls of Task::onTaskCompletion
  completionSetValues,   \* setValue() calls on task-completion promises
  completionRequested,   \* task-completion promises ever created
  pauseFuture,           \* "none", "pending", "ready": future of requestPause
  resumeCalls,           \* calls of Task::resume in the current reclaim
  timedOut,              \* some reclaim has timed out waiting for the pause
  termFuture,            \* future terminate() returned to the external caller
  nextSplitId,           \* data splits offered to the task so far
  handed,                \* [SplitIds -> Nat]: times getSplitOrFuture returned it
  accepted,              \* data splits addSplit / addSplitWithSequence queued
  acceptedSequenceId,    \* [Leaves -> Int]: largest sequenceId accepted so far
  barrierRequests,       \* futures requestBarrier() returned
  barrierThrown,         \* requestBarrier() calls that threw
  barrierFulfilled,      \* barrier futures fulfilled
  finishCalls,           \* [Drivers -> Nat]: finishDriverBarrier calls this round
  yieldChecks,           \* [Drivers -> ..]: kYield results since yieldIfDue
  ignoredTerminate,      \* terminate(s) returned a future on a task in state s
  sinkState,             \* HiveDataSink::state_
  sinkWrittenBytes,      \* batches appended to the data sink's writers
  sinkError,             \* what the last call on the data sink threw
  sinkCalls,             \* calls made on the data sink
  planFragment_,         \* the plan: execution mode, split groups, output
  numDriversPerSplitGroup_,
  concurrentSplitGroups_,
  numRunningSplitGroups_,
  splitGroupStates_,     \* per split group: numRunningDrivers,
                         \* numFinishedOutputDrivers
  driverCtxs,            \* the DriverCtx (splitGroupId, pipelineId) of the
                         \* Drivers held in drivers_ of a task run by its plan
  partitionedOutputConsumed_,
  pendingFinished,       \* callers that saw allFinished and have yet to
                         \* call terminate(kFinished)
  finishedChecks,        \* times checkIfFinishedLocked returned true
  lastCall,              \* the last call made on a task run by its plan
  \* ---- Task::next in progress (serial execution) ----
  nextPc,                \* "idle", "visit" (in the loop over the Drivers)
  nextI,                 \* the loop variable i
  nextFuture,            \* the caller has supplied a future
  nextHasBarrier,        \* hasBarrier: underBarrier() as the call began
  runnableDrivers,
  blockedDrivers,
  futures,               \* [Drivers -> "ready" | "pending"]: the call's futures
  nextResult,            \* how the last call ended
  combined,              \* the Drivers whose futures the returned future joins
  nextCalls,             \* Task::next calls made so far
  \* ---- Task::DriverBlockingState of each Driver ----
  blocked_,
  promises_,             \* number of waiter promises registered
  error_,
  driverFuture,          \* "none", "pending": the future of setDriverFuture
  blocksMade,            \* times the Driver has reported it is blocked
  promisesMade,          \* waiter promises blocked() has created
  promisesFulfilled,     \* waiter promises fulfilled
  \* ---- BarrierState of one plan node in splitGroupStates_[..].barriers ----
  numRequested,
  barrierDrivers,        \* BarrierState::drivers, in call order
  allPeersFinishedPromises, \* number of promises held
  peerCalled,            \* [Drivers -> "no" | "false" | "true" | "failed"]
  peerFuture,            \* the Drivers that passed a future
  peers,                 \* the Drivers handed to the call that returned true
  peerPromises,          \* the number of promises handed to it
  \* ---- observation of a task run by its plan ----
  groupStarts,           \* [GroupIds -> Nat]: times the Drivers of the split
                         \* group were created
  \* ---- TaskQueue (Cursor.cpp) ----
  queue_,                \* Seq of [id, bytes]: TaskQueueEntry
  totalBytes_,
  maxBytes_,
  numProducers_,         \* std::optional: {} or {n}
  producersFinished_,
  closed_,
  consumerBlocked_,
  consumerFuture_,       \* "none", "pending" or "ready"
  producerUnblockPromises_, \* Seq of Producers: whose future each promise is
  ppc,                   \* [Producers -> "run", "blocked", "finished", "threw"]
  qpc,                   \* position of the consumer in dequeue
  vector,                \* dequeue's local 'vector': 0 is null, else the id
  mayContinue,           \* dequeue's local 'mayContinue'
  dequeueResult,         \* "none", "vector" or "nullptr"
  enqueued,              \* ids of the vectors enqueue has queued, in order
  returned               \* ids of the vectors dequeue has returned, in order

taskVars == <<state_, exception_, pauseRequested_, terminateRequested_,
              toYield_, numThreads_, numRunningDrivers_, numFinishedDrivers_,
              numTotalDrivers_, numDriversUngrouped_,
              numFinishedOutputDrivers, drivers_,
              threadFinishPromises_, taskCompletionPromises_, started,
              mode_>>
splitVars == <<groupSplitsStores, splits, splitPromises, storeNoMoreSplits,
               noMoreSplits, maxSequenceId, seenSplitGroups_,
               queuedSplitGroups_, numTotalSplits, numQueuedSplits>>
barrierVars == <<barrierRequested_, barrierFinishPromises_,
                 numDriversUnderBarrier_, numBarriers>>
threadStateVars == <<isEnqueued, isTerminated, thread, numSuspensions,
                     hasBlockingFuture>>
driverVars == <<closed, queued, dpc, dret, requeue, driverBarrier, gotBarrier>>
termVars == <<tst, toff, tprom, tbar>>
callerVars == <<cpc>>
reclaimVars == <<rpc, rounds, rMaxWait, rOutcome, rClose>>
obsVars == <<inDriver, closeByTaskCount, finishedCount,
             listenerCalls, completionSetValues, completionRequested,
             pauseFuture, resumeCalls, timedOut, termFuture,
             nextSplitId, handed, accepted, acceptedSequenceId,
             barrierRequests, barrierThrown, barrierFulfilled,
             finishCalls, yieldChecks, ignoredTerminate>>
sinkVars == <<sinkState, sinkWrittenBytes, sinkError, sinkCalls>>
groupVars == <<planFragment_, numDriversPerSplitGroup_, concurrentSplitGroups_,
               numRunningSplitGroups_, splitGroupStates_, driverCtxs,
               partitionedOutputConsumed_, pendingFinished, finishedChecks,
               lastCall, groupStarts>>
serialVars == <<nextPc, nextI, nextFuture, nextHasBarrier, runnableDrivers,
                blockedDrivers, futures, nextResult, combined, nextCalls,
                blocked_, promises_, error_, driverFuture, blocksMade,
                promisesMade, promisesFulfilled>>
peerVars == <<numRequested, barrierDrivers, allPeersFinishedPromises,
              peerCalled, peerFuture, peers, peerPromises>>
queueVars == <<queue_, totalBytes_, maxBytes_, numProducers_,
               producersFinished_, closed_, consumerBlocked_, consumerFuture_,
               producerUnblockPromises_, ppc, qpc, vector, mayContinue,
               dequeueResult, enqueued, returned>>

vars == <<taskVars, splitVars, barrierVars, threadStateVars, driverVars,
          termVars, callerVars, reclaimVars, obsVars, sinkVars, groupVars,
          serialVars, peerVars, queueVars>>

-----------------------------------------------------------------------------
\* The Drivers that start() or next() creates for the ungrouped pipeline.
TaskDrivers == 1..numDriversUngrouped_

\* Task::isRunningLocked
isRunningLocked == state_ = "Running"

\* Task::shouldStopLocked: the reason it returns ...
shouldStopLocked ==
  IF pauseRequested_ THEN "kPause"
  ELSE IF terminateRequested_ THEN "kTerminate"
  ELSE IF toYield_ > 0 THEN "kYield"
  ELSE "kNone"

\* ... and the value it leaves in toYield_.
toYieldAfterShouldStop ==
  IF shouldStopLocked = "kYield" THEN toYield_ - 1 ELSE toYield_

\* Task::shouldStop: the unlocked check made by the Driver loop.
shouldStop ==
  IF pauseRequested_ THEN "kPause"
  ELSE IF terminateRequested_ THEN "kTerminate"
  ELSE IF toYield_ > 0 THEN shouldStopLocked
  ELSE "kNone"

\* ThreadState::suspended
suspended(d) == numSuspensions[d] > 0

RECURSIVE SumOver(_, _)
\* The sum of f[x] for x in S.
SumOver(f, S) ==
  IF S = {} THEN 0
  ELSE LET x == CHOOSE y \in S : TRUE
       IN f[x] + SumOver(f, S \ {x})

\* The task after Task::create, whatever its execution mode.
InitTask ==
  /\ state_ = "Running"
  /\ exception_ = "none"
  /\ pauseRequested_ = FALSE
  /\ terminateRequested_ = FALSE
  /\ toYield_ = 0
  /\ numThreads_ = 0
  /\ numRunningDrivers_ = 0
  /\ numFinishedDrivers_ = 0
  /\ numTotalDrivers_ = 0
  /\ numDriversUngrouped_ = 0
  /\ numFinishedOutputDrivers = 0
  /\ drivers_ = [d \in Drivers |-> FALSE]
  /\ threadFinishPromises_ = {}
  /\ taskCompletionPromises_ = 0
  /\ started = "no"
  /\ isEnqueued = [d \in Drivers |-> FALSE]
  /\ isTerminated = [d \in Drivers |-> FALSE]
  /\ thread = [d \in Drivers |-> FALSE]
  /\ numSuspensions = [d \in Drivers |-> 0]
  /\ hasBlockingFuture = [d \in Drivers |-> FALSE]
  /\ closed = [d \in Drivers |-> FALSE]
  /\ queued = [d \in Drivers |-> 0]
  /\ dpc = [d \in Drivers |-> "off"]
  /\ dret = [d \in Drivers |-> "kNone"]
  /\ requeue = [d \in Drivers |-> 0]
  /\ tst = [a \in Agents |-> "idle"]
  /\ toff = [a \in Agents |-> {}]
  /\ tprom = [a \in Agents |-> 0]
  /\ cpc = "idle"
  /\ rpc = "idle"
  /\ rounds = 0
  /\ rMaxWait = 0
  /\ rOutcome = "none"
  /\ rClose = {}
  /\ inDriver = [d \in Drivers |-> 0]
  /\ closeByTaskCount = [d \in Drivers |-> 0]
  /\ finishedCount = [d \in Drivers |-> 0]
  /\ listenerCalls = 0
  /\ completionSetValues = 0
  /\ completionRequested = 0
  /\ pauseFuture = "none"
  /\ resumeCalls = 0
  /\ timedOut = FALSE
  /\ termFuture = "none"
  /\ groupSplitsStores = [n \in Leaves |-> {}]
  /\ splits = [n \in Leaves |-> [g \in StoreIds |-> <<>>]]
  /\ splitPromises = [n \in Leaves |-> [g \in StoreIds |-> 0]]
  /\ storeNoMoreSplits = [n \in Leaves |-> [g \in StoreIds |-> FALSE]]
  /\ noMoreSplits = [n \in Leaves |-> FALSE]
  /\ maxSequenceId = [n \in Leaves |-> -1]
  /\ seenSplitGroups_ = {}
  /\ queuedSplitGroups_ = <<>>
  /\ numTotalSplits = 0
  /\ numQueuedSplits = 0
  /\ barrierRequested_ = FALSE
  /\ barrierFinishPromises_ = 0
  /\ numDriversUnderBarrier_ = 0
  /\ numBarriers = 0
  /\ driverBarrier = [d \in Drivers |-> FALSE]
  /\ gotBarrier = [d \in Drivers |-> FALSE]
  /\ tbar = [a \in Agents |-> 0]
  /\ nextSplitId = 0
  /\ handed = [i \in SplitIds |-> 0]
  /\ accepted = {}
  /\ acceptedSequenceId = [n \in Leaves |-> -1]
  /\ barrierRequests = 0
  /\ barrierThrown = 0
  /\ barrierFulfilled = 0
  /\ finishCalls = [d \in Drivers |-> 0]
  /\ yieldChecks = [d \in Drivers |-> "notDue"]
  /\ ignoredTerminate = FALSE
  /\ sinkState = "RUNNING"
  /\ sinkWrittenBytes = 0
  /\ sinkError = <<"none">>
  /\ sinkCalls = 0
  /\ numDriversPerSplitGroup_ = 0
  /\ concurrentSplitGroups_ = 1
  /\ numRunningSplitGroups_ = 0
  /\ splitGroupStates_ =
       [g \in GroupIds |-> [numRunningDrivers |-> 0,
                            numFinishedOutputDrivers |-> 0]]
  /\ driverCtxs = {}
  /\ partitionedOutputConsumed_ = FALSE
  /\ pendingFinished = 0
  /\ finishedChecks = 0
  /\ lastCall = "create"
  /\ nextPc = "idle"
  /\ nextI = 1
  /\ nextFuture = FALSE
  /\ nextHasBarrier = FALSE
  /\ runnableDrivers = 0
  /\ blockedDrivers = 0
  /\ futures = [d \in Drivers |-> "ready"]
  /\ nextResult = "none"
  /\ combined = {}
  /\ nextCalls = 0
  /\ blocked_ = [d \in Drivers |-> FALSE]
  /\ promises_ = [d \in Drivers |-> 0]
  /\ error_ = [d \in Drivers |-> FALSE]
  /\ driverFuture = [d \in Drivers |-> "none"]
  /\ blocksMade = [d \in Drivers |-> 0]
  /\ promisesMade = [d \in Drivers |-> 0]
  /\ promisesFulfilled = [d \in Drivers |-> 0]
  /\ numRequested = 0
  /\ barrierDrivers = <<>>
  /\ allPeersFinishedPromises = 0
  /\ peerCalled = [d \in Drivers |-> "no"]
  /\ peerFuture = {}
  /\ peers = <<>>
  /\ peerPromises = 0
  /\ groupStarts = [g \in GroupIds |-> 0]
  /\ queue_ = <<>>
  /\ totalBytes_ = 0
  /\ producersFinished_ = 0
  /\ closed_ = FALSE
  /\ consumerBlocked_ = FALSE
  /\ consumerFuture_ = "none"
  /\ producerUnblockPromises_ = <<>>
  /\ ppc = [p \in Producers |-> "run"]
  /\ qpc = "idle"
  /\ vector = 0
  /\ mayContinue = <<>>
  /\ dequeueResult = "none"
  /\ enqueued = <<>>
  /\ returned = <<>>

\* The task is not read through a cursor.
NoTaskQueue == maxBytes_ = 0 /\ numProducers_ = {}

\* A task created for parallel execution, run by Task::start.
Init ==
  /\ InitTask /\ NoTaskQueue
  /\ mode_ = "kParallel" /\ planFragment_ = UngroupedPlan

\* A task created for either execution mode; a serial one is run by
\* Task::next.
SplitInit ==
  /\ InitTask /\ NoTaskQueue
  /\ mode_ \in {"kParallel", "kSerial"}
  /\ planFragment_ = UngroupedPlan

\* A task created for serial execution, run by Task::next.
SerialInit ==
  /\ InitTask /\ NoTaskQueue
  /\ mode_ = "kSerial" /\ planFragment_ = UngroupedPlan

\* A task created for parallel execution of any of the plans.
GroupInit ==
  /\ InitTask /\ NoTaskQueue
  /\ mode_ = "kParallel" /\ planFragment_ \in Plans

\* A TaskQueue constructed with maxBytes and numProducers (or without a
\* number of producers), fed by the Drivers of a task.
QueueInit ==
  /\ InitTask
  /\ mode_ = "kParallel" /\ planFragment_ = UngroupedPlan
  /\ maxBytes_ \in 0..MaxQueueBytes
  /\ numProducers_ \in {{}, {NumProducers}}

-----------------------------------------------------------------------------
(* Promises of threadFinishPromises_.                                      *)

\* Task::makeFinishFutureLocked fulfilling the promise without waiting for
\* the threads.
makeFinishFutureLockedNoWait(p) ==
  /\ threadFinishPromises_' = threadFinishPromises_
  /\ pauseFuture' = IF p # "pause" THEN pauseFuture ELSE "ready"
  /\ termFuture' = IF p # "terminate" THEN termFuture ELSE "ready"

\* Task::makeFinishFutureLocked: promise 'p' is fulfilled at once when no
\* thread is counted in numThreads_, and is parked otherwise.
makeFinishFutureLocked(p) ==
  /\ threadFinishPromises_' =
       IF numThreads_ = 0 THEN threadFinishPromises_
       ELSE threadFinishPromises_ \cup {p}
  /\ pauseFuture' =
       IF p # "pause" THEN pauseFuture
       ELSE IF numThreads_ = 0 THEN "ready" ELSE "pending"
  /\ termFuture' =
       IF p # "terminate" THEN termFuture
       ELSE IF numThreads_ = 0 THEN "ready" ELSE "pending"

\* The decrement of numThreads_ to 'n' in leave / enterSuspended followed by
\* allThreadsFinishedLocked and the setValue() of the promises swapped out.
threadLeft(n) ==
  /\ numThreads_' = n
  /\ IF n = 0
     THEN /\ threadFinishPromises_' = {}
          /\ pauseFuture' = IF pauseFuture = "pending"
                            THEN "ready" ELSE pauseFuture
          /\ termFuture' = IF termFuture = "pending"
                           THEN "ready" ELSE termFuture
     ELSE UNCHANGED <<threadFinishPromises_, pauseFuture, termFuture>>

-----------------------------------------------------------------------------
(* Task::start                                                             *)

\* Task::start up to and including createDriverFactoriesLocked.
StartFactories(maxDrivers) ==
  /\ started = "no"
  /\ IF ~isRunningLocked
     THEN /\ started' = "failed"
          /\ UNCHANGED <<numDriversUngrouped_, numTotalDrivers_>>
     ELSE /\ started' = "factories"
          /\ numDriversUngrouped_' = numDriversUngrouped_ + maxDrivers
          /\ numTotalDrivers_' = numTotalDrivers_ + maxDrivers
  /\ UNCHANGED <<state_, exception_, pauseRequested_, terminateRequested_,
                  toYield_, numThreads_, numRunningDrivers_,
                  numFinishedDrivers_, numFinishedOutputDrivers, drivers_,
                  threadFinishPromises_, taskCompletionPromises_, isEnqueued,
                  isTerminated, thread, numSuspensions, hasBlockingFuture,
                  closed, queued, dpc, dret, requeue, tst, toff, tprom, cpc,
                  rpc, rounds, rMaxWait, rOutcome, rClose, inDriver,
                  closeByTaskCount, finishedCount, listenerCalls,
                  completionSetValues, completionRequested, pauseFuture,
                  resumeCalls, timedOut, termFuture, mode_,
                  groupSplitsStores, splits, splitPromises,
                  storeNoMoreSplits, noMoreSplits, maxSequenceId,
                  seenSplitGroups_, queuedSplitGroups_, numTotalSplits,
                  numQueuedSplits, barrierRequested_, barrierFinishPromises_,
                  numDriversUnderBarrier_, numBarriers, driverBarrier,
                  gotBarrier, tbar, nextSplitId, handed, accepted,
                  acceptedSequenceId, barrierRequests, barrierThrown,
                  barrierFulfilled, finishCalls, yieldChecks,
                  ignoredTerminate, sinkState, sinkWrittenBytes, sinkError,
                  sinkCalls, planFragment_, numDriversPerSplitGroup_,
                  concurrentSplitGroups_, numRunningSplitGroups_,
                  splitGroupStates_, driverCtxs, partitionedOutputConsumed_,
                  pendingFinished, finishedChecks, lastCall, nextPc, nextI,
                  nextFuture, nextHasBarrier, runnableDrivers,
                  blockedDrivers, futures, nextResult, combined, nextCalls,
                  blocked_, promises_, error_, driverFuture, blocksMade,
                  promisesMade, promisesFulfilled, numRequested,
                  barrierDrivers, allPeersFinishedPromises, peerCalled,
                  peerFuture, peers, peerPromises, groupStarts, queue_,
                  totalBytes_, maxBytes_, numProducers_, producersFinished_,
                  closed_, consumerBlocked_, consumerFuture_,
                  producerUnblockPromises_, ppc, qpc, vector, mayContinue,
                  dequeueResult, enqueued, returned>>

\* Task::createAndStartDrivers, and the catch block of Task::start when its
\* isRunningLocked check fails.
StartDrivers ==
  /\ started = "factories"
  /\ IF ~isRunningLocked
     THEN /\ started' = "failed"
          /\ numFinishedDrivers_' = numTotalDrivers_
          /\ UNCHANGED <<drivers_, numRunningDrivers_, isEnqueued, queued>>
     ELSE /\ started' = "yes"
          /\ drivers_' = [d \in Drivers |-> d \in TaskDrivers]
          /\ numRunningDrivers_' = numRunningDrivers_ + numDriversUngrouped_
          /\ isEnqueued' = [d \in Drivers |-> d \in TaskDrivers]
          /\ queued' = [d \in Drivers |->
                          queued[d] + IF d \in TaskDrivers THEN 1 ELSE 0]
          /\ UNCHANGED numFinishedDrivers_
  /\ UNCHANGED <<state_, exception_, pauseRequested_, terminateRequested_,
                  toYield_, numThreads_, numTotalDrivers_,
                  numDriversUngrouped_, numFinishedOutputDrivers,
                  threadFinishPromises_, taskCompletionPromises_,
                  isTerminated, thread, numSuspensions, hasBlockingFuture,
                  closed, dpc, dret, requeue, tst, toff, tprom, cpc, rpc,
                  rounds, rMaxWait, rOutcome, rClose, inDriver,
                  closeByTaskCount, finishedCount, listenerCalls,
                  completionSetValues, completionRequested, pauseFuture,
                  resumeCalls, timedOut, termFuture, mode_,
                  groupSplitsStores, splits, splitPromises,
                  storeNoMoreSplits, noMoreSplits, maxSequenceId,
                  seenSplitGroups_, queuedSplitGroups_, numTotalSplits,
                  numQueuedSplits, barrierRequested_, barrierFinishPromises_,
                  numDriversUnderBarrier_, numBarriers, driverBarrier,
                  gotBarrier, tbar, nextSplitId, handed, accepted,
                  acceptedSequenceId, barrierRequests, barrierThrown,
                  barrierFulfilled, finishCalls, yieldChecks,
                  ignoredTerminate, sinkState, sinkWrittenBytes, sinkError,
                  sinkCalls, planFragment_, numDriversPerSplitGroup_,
                  concurrentSplitGroups_, numRunningSplitGroups_,
                  splitGroupStates_, driverCtxs, partitionedOutputConsumed_,
                  pendingFinished, finishedChecks, lastCall, nextPc, nextI,
                  nextFuture, nextHasBarrier, runnableDrivers,
                  blockedDrivers, futures, nextResult, combined, nextCalls,
                  blocked_, promises_, error_, driverFuture, blocksMade,
                  promisesMade, promisesFulfilled, numRequested,
                  barrierDrivers, allPeersFinishedPromises, peerCalled,
                  peerFuture, peers, peerPromises, groupStarts, queue_,
                  totalBytes_, maxBytes_, numProducers_, producersFinished_,
                  closed_, consumerBlocked_, consumerFuture_,
                  producerUnblockPromises_, ppc, qpc, vector, mayContinue,
                  dequeueResult, enqueued, returned>>

-----------------------------------------------------------------------------
(* Task::enter, Task::leave and the suspended sections.                    *)

\* The thread of Driver d has called Task::shouldStopLocked: yieldChecks
\* records whether the call returned kYield to a thread that was counted by
\* the last yieldIfDue, and how often.
yieldObserved(d) ==
  yieldChecks' =
    [yieldChecks EXCEPT ![d] =
       IF toYield_' >= toYield_ THEN @
       ELSE IF @ = "due" THEN "once"
       ELSE IF @ = "notDue" THEN "other"
       ELSE "twice"]

\* Task::enter without its checks of the Driver's own thread state.
enterReasonUnchecked(d) == shouldStopLocked

\* The StopReason Task::enter returns for Driver d.
enterReason(d) ==
  IF isTerminated[d] THEN "kAlreadyTerminated"
  ELSE IF thread[d] THEN "kAlreadyOnThread"
  ELSE shouldStopLocked

\* Task::enter
enter(d) ==
  /\ isEnqueued[d]
  /\ isEnqueued' = [isEnqueued EXCEPT ![d] = FALSE]
  /\ IF enterReason(d) \in {"kAlreadyTerminated", "kAlreadyOnThread"}
     THEN UNCHANGED <<isTerminated, thread, hasBlockingFuture, numThreads_,
                      toYield_, yieldChecks>>
     ELSE /\ toYield_' = toYieldAfterShouldStop
          /\ yieldObserved(d)
          /\ isTerminated' =
               [isTerminated EXCEPT ![d] = @ \/ enterReason(d) = "kTerminate"]
          /\ IF enterReason(d) = "kNone"
             THEN /\ numThreads_' = numThreads_ + 1
                  /\ thread' = [thread EXCEPT ![d] = TRUE]
                  /\ hasBlockingFuture' =
                       [hasBlockingFuture EXCEPT ![d] = FALSE]
             ELSE UNCHANGED <<numThreads_, thread, hasBlockingFuture>>

\* Task::enterForTerminateLocked without its check of pauseRequested_.
enterForTerminateLockedNoPause(d) ==
  IF thread[d] \/ isTerminated[d] THEN "kAlreadyOnThread" ELSE "kTerminate"

\* Task::enterForTerminateLocked: the StopReason it returns for Driver d.
enterForTerminateLocked(d) ==
  IF thread[d] \/ isTerminated[d] THEN "kAlreadyOnThread"
  ELSE IF pauseRequested_ THEN "kPause"
  ELSE "kTerminate"

\* The reason computed by the first critical section of Task::leave.
leaveReason(d) ==
  IF isTerminated[d] THEN "kTerminate" ELSE shouldStopLocked

\* Task::leave, first critical section. 'hasCb' tells whether driverCb is
\* non-null. The thread goes off the Driver here unless it has to run
\* driverCb first.
leaveLocked(d, hasCb) ==
  /\ toYield_' = IF isTerminated[d] THEN toYield_ ELSE toYieldAfterShouldStop
  /\ yieldObserved(d)
  /\ isTerminated' =
       [isTerminated EXCEPT ![d] = (leaveReason(d) = "kTerminate")]
  /\ IF leaveReason(d) # "kTerminate" \/ ~hasCb
     THEN /\ threadLeft(numThreads_ - 1)
          /\ thread' = [thread EXCEPT ![d] = FALSE]
     ELSE UNCHANGED <<numThreads_, threadFinishPromises_, pauseFuture,
                      termFuture, thread>>

\* Task::leave, critical section after driverCb has run.
leaveAfterCb(d) ==
  /\ threadLeft(numThreads_ - 1)
  /\ thread' = [thread EXCEPT ![d] = FALSE]

\* The StopReason Task::enterSuspended returns.
enterSuspendedReason(d) ==
  IF isTerminated[d] THEN "kAlreadyTerminated"
  ELSE IF shouldStopLocked = "kTerminate" THEN "kTerminate"
  ELSE "kNone"

\* Task::enterSuspended counting the thread out at every level.
enterSuspendedEveryLevel(d) ==
  /\ ~hasBlockingFuture[d]
  /\ thread[d]
  /\ toYield_' = IF isTerminated[d] THEN toYield_ ELSE toYieldAfterShouldStop
  /\ yieldObserved(d)
  /\ isTerminated' =
       [isTerminated EXCEPT ![d] = @ \/ enterSuspendedReason(d) = "kTerminate"]
  /\ IF enterSuspendedReason(d) = "kNone"
     THEN /\ numSuspensions' = [numSuspensions EXCEPT ![d] = @ + 1]
          /\ threadLeft(numThreads_ - 1)
     ELSE UNCHANGED <<numSuspensions, numThreads_, threadFinishPromises_,
                      pauseFuture, termFuture>>

\* Task::enterSuspended
enterSuspended(d) ==
  /\ ~hasBlockingFuture[d]
  /\ thread[d]
  /\ toYield_' = IF isTerminated[d] THEN toYield_ ELSE toYieldAfterShouldStop
  /\ yieldObserved(d)
  /\ isTerminated' =
       [isTerminated EXCEPT ![d] = @ \/ enterSuspendedReason(d) = "kTerminate"]
  /\ IF enterSuspendedReason(d) = "kNone"
     THEN /\ numSuspensions' = [numSuspensions EXCEPT ![d] = @ + 1]
          /\ IF numSuspensions[d] + 1 > 1
             THEN UNCHANGED <<numThreads_, threadFinishPromises_, pauseFuture,
                              termFuture>>
             ELSE threadLeft(numThreads_ - 1)
     ELSE UNCHANGED <<numSuspensions, numThreads_, threadFinishPromises_,
                      pauseFuture, termFuture>>

\* Task::leaveSuspended counting the thread back in at every level.
leaveSuspendedEveryLevel(d) ==
  /\ ~hasBlockingFuture[d]
  /\ thread[d]
  /\ numSuspensions[d] > 0
  /\ numSuspensions[d] > 1 \/ ~pauseRequested_
  /\ isTerminated' = [isTerminated EXCEPT ![d] = @ \/ terminateRequested_]
  /\ numSuspensions' = [numSuspensions EXCEPT ![d] = @ - 1]
  /\ numThreads_' = numThreads_ + 1

\* Task::leaveSuspended returning while a pause is requested.
leaveSuspendedNoPause(d) ==
  /\ ~hasBlockingFuture[d]
  /\ thread[d]
  /\ numSuspensions[d] > 0
  /\ isTerminated' = [isTerminated EXCEPT ![d] = @ \/ terminateRequested_]
  /\ numSuspensions' = [numSuspensions EXCEPT ![d] = @ - 1]
  /\ numThreads_' = IF numSuspensions[d] - 1 = 0 THEN numThreads_ + 1
                    ELSE numThreads_

\* Task::leaveSuspended: one iteration of its loop that returns. While a
\* pause is requested the outermost leave sleeps and retries instead.
leaveSuspended(d) ==
  /\ ~hasBlockingFuture[d]
  /\ thread[d]
  /\ numSuspensions[d] > 0
  /\ numSuspensions[d] > 1 \/ ~pauseRequested_
  /\ isTerminated' = [isTerminated EXCEPT ![d] = @ \/ terminateRequested_]
  /\ numSuspensions' = [numSuspensions EXCEPT ![d] = @ - 1]
  /\ numThreads_' = IF numSuspensions[d] - 1 = 0 THEN numThreads_ + 1
                    ELSE numThreads_

\* Task::yieldIfDue, for a thread that has been on thread long enough.
yieldIfDue ==
  /\ numThreads_ # 0
  /\ toYield_ = 0
  /\ ~terminateRequested_
  /\ ~pauseRequested_
  /\ toYield_' = numThreads_
  /\ yieldChecks' = [d \in Drivers |->
                       IF thread[d] /\ ~suspended(d) THEN "due" ELSE "notDue"]

YieldIfDue ==
  /\ yieldIfDue
  /\ UNCHANGED <<state_, exception_, pauseRequested_, terminateRequested_,
                  numThreads_, numRunningDrivers_, numFinishedDrivers_,
                  numTotalDrivers_, numDriversUngrouped_,
                  numFinishedOutputDrivers, drivers_, threadFinishPromises_,
                  taskCompletionPromises_, started, isEnqueued, isTerminated,
                  thread, numSuspensions, hasBlockingFuture, closed, queued,
                  dpc, dret, requeue, tst, toff, tprom, cpc, rpc, rounds,
                  rMaxWait, rOutcome, rClose, inDriver, closeByTaskCount,
                  finishedCount, listenerCalls, completionSetValues,
                  completionRequested, pauseFuture, resumeCalls, timedOut,
                  termFuture, mode_, groupSplitsStores, splits,
                  splitPromises, storeNoMoreSplits, noMoreSplits,
                  maxSequenceId, seenSplitGroups_, queuedSplitGroups_,
                  numTotalSplits, numQueuedSplits, barrierRequested_,
                  barrierFinishPromises_, numDriversUnderBarrier_,
                  numBarriers, driverBarrier, gotBarrier, tbar, nextSplitId,
                  handed, accepted, acceptedSequenceId, barrierRequests,
                  barrierThrown, barrierFulfilled, finishCalls,
                  ignoredTerminate, sinkState, sinkWrittenBytes, sinkError,
                  sinkCalls, planFragment_, numDriversPerSplitGroup_,
                  concurrentSplitGroups_, numRunningSplitGroups_,
                  splitGroupStates_, driverCtxs, partitionedOutputConsumed_,
                  pendingFinished, finishedChecks, lastCall, nextPc, nextI,
                  nextFuture, nextHasBarrier, runnableDrivers,
                  blockedDrivers, futures, nextResult, combined, nextCalls,
                  blocked_, promises_, error_, driverFuture, blocksMade,
                  promisesMade, promisesFulfilled, numRequested,
                  barrierDrivers, allPeersFinishedPromises, peerCalled,
                  peerFuture, peers, peerPromises, groupStarts, queue_,
                  totalBytes_, maxBytes_, numProducers_, producersFinished_,
                  closed_, consumerBlocked_, consumerFuture_,
                  producerUnblockPromises_, ppc, qpc, vector, mayContinue,
                  dequeueResult, enqueued, returned>>

-----------------------------------------------------------------------------
(* Task::removeDriver, Task::checkIfFinishedLocked                         *)

\* Task::checkIfFinishedLocked for the given counter values (the pipeline of
\* the model is the output pipeline and has no partitioned output).
checkIfFinishedLocked(finished, finishedOutput) ==
  /\ isRunningLocked
  /\ \/ finished = numTotalDrivers_
     \/ finishedOutput = numDriversUngrouped_

\* The value of 'allFinished' at the end of Task::removeDriver.
removeDriverAllFinished(d) ==
  IF drivers_[d]
  THEN checkIfFinishedLocked(numFinishedDrivers_ + 1,
                             numFinishedOutputDrivers + 1)
  ELSE TRUE

\* Task::removeDriver, its critical section (with driverClosedLocked).
removeDriver(d) ==
  IF drivers_[d]
  THEN /\ drivers_' = [drivers_ EXCEPT ![d] = FALSE]
       /\ numFinishedOutputDrivers' = numFinishedOutputDrivers + 1
       /\ numRunningDrivers_' = IF isRunningLocked THEN numRunningDrivers_ - 1
                                ELSE numRunningDrivers_
       /\ numFinishedDrivers_' = numFinishedDrivers_ + 1
       /\ finishedCount' = [finishedCount EXCEPT ![d] = @ + 1]
  ELSE UNCHANGED <<drivers_, numFinishedOutputDrivers, numRunningDrivers_,
                   numFinishedDrivers_, finishedCount>>

-----------------------------------------------------------------------------
(* Task::terminate and Task::setError, as called by agent a.               *)

\* The promise of threadFinishPromises_ a terminate() call of agent a makes.
terminatePromise(a) == IF a = CallerAgent THEN "terminate" ELSE "internal"

\* Task::terminate returning early only when asked for the state the task
\* is already in.
terminateReturnsEarlySameState(st) == state_ = st

\* Task::terminate without its early return.
terminateNeverReturnsEarly(st) == FALSE

\* Task::terminate returns early, without effect, on a task that is not
\* running.
terminateReturnsEarly(st) == ~isRunningLocked

\* Task::terminate, first critical section, with terminalState = st.
terminateLocked(a, st) ==
  IF terminateReturnsEarly(st)
  THEN /\ makeFinishFutureLocked(terminatePromise(a))
       /\ ignoredTerminate' = (ignoredTerminate \/ state_ = st)
       /\ UNCHANGED <<state_, exception_, taskCompletionPromises_, tprom,
                      numTotalDrivers_, terminateRequested_,
                      numRunningDrivers_, isTerminated, thread, drivers_,
                      numFinishedDrivers_, finishedCount, toff,
                      barrierFinishPromises_, tbar>>
  ELSE /\ state_' = st
       /\ exception_' = IF st = "Canceled" THEN "Cancelled"
                        ELSE IF st = "Aborted" THEN "Aborted"
                        ELSE exception_
       /\ tprom' = [tprom EXCEPT ![a] = taskCompletionPromises_]
       /\ taskCompletionPromises_' = 0
       /\ numTotalDrivers_' = numDriversUngrouped_
       /\ terminateRequested_' = TRUE
       /\ numRunningDrivers_' = 0
       /\ LET present == {d \in Drivers : drivers_[d]}
              off == {d \in present :
                        enterForTerminateLocked(d) = "kTerminate"}
              marked == {d \in present :
                           enterForTerminateLocked(d) # "kPause"}
          IN /\ isTerminated' =
                  [d \in Drivers |-> isTerminated[d] \/ d \in marked]
             /\ thread' = [d \in Drivers |-> thread[d] \/ d \in off]
             /\ drivers_' = [d \in Drivers |-> drivers_[d] /\ d \notin off]
             /\ numFinishedDrivers_' = numFinishedDrivers_ + Cardinality(off)
             /\ finishedCount' =
                  [d \in Drivers |->
                     finishedCount[d] + IF d \in off THEN 1 ELSE 0]
             /\ toff' = [toff EXCEPT ![a] = off]
       /\ tbar' = [tbar EXCEPT ![a] = barrierFinishPromises_]
       /\ barrierFinishPromises_' = 0
       /\ UNCHANGED <<threadFinishPromises_, pauseFuture, termFuture,
                      ignoredTerminate>>

\* Task::terminate after its first critical section: the completion
\* notifier (promises and Task::onTaskCompletion), closeByTask of the
\* off-thread Drivers, the waiter promises moved out of every split store in
\* the second critical section and fulfilled, and the barrier promises
\* fulfilled.
terminateNotify(a) ==
  /\ completionSetValues' = completionSetValues + tprom[a]
  /\ tprom' = [tprom EXCEPT ![a] = 0]
  /\ listenerCalls' = listenerCalls + 1
  /\ closeByTaskCount' =
       [d \in Drivers |-> closeByTaskCount[d] + IF d \in toff[a] THEN 1 ELSE 0]
  /\ closed' = [d \in Drivers |-> closed[d] \/ d \in toff[a]]
  /\ toff' = [toff EXCEPT ![a] = {}]
  /\ splitPromises' = [n \in Leaves |-> [g \in StoreIds |-> 0]]
  /\ barrierFulfilled' = barrierFulfilled + tbar[a]
  /\ tbar' = [tbar EXCEPT ![a] = 0]

\* Task::setError, its critical section: TRUE when the exception is stored
\* and terminate(kFailed) follows.
setErrorStores == isRunningLocked /\ exception_ = "none"

\* Task::setError
setError(a) ==
  IF setErrorStores
  THEN /\ exception_' = "error"
       /\ tst' = [tst EXCEPT ![a] = "start"]
  ELSE UNCHANGED <<exception_, tst>>

\* The terminal state of the terminate() call agent a is about to make:
\* kFailed from setError, kFinished from removeDriver.
pendingState(a) ==
  IF \E d \in Drivers : a = DriverAgent(d) /\ dpc[d] \in {"closeTerm", "cbTerm"}
  THEN "Finished" ELSE "Failed"

\* The terminate() call of agent a returns: the agent goes on.
returnTo(a) ==
  /\ dpc' = [d \in Drivers |->
               IF a # DriverAgent(d) THEN dpc[d]
               ELSE IF dpc[d] = "setErrorTerm" THEN "throwClose"
               ELSE IF dpc[d] = "closeTerm" THEN "leave"
               ELSE IF dpc[d] = "cbTerm" THEN "leaveFin"
               ELSE dpc[d]]
  /\ cpc' = IF a = CallerAgent THEN "idle" ELSE cpc
  /\ rpc' = IF a = ReclaimAgent THEN "resume" ELSE rpc

\* terminate() called from setError or removeDriver enters its first
\* critical section.
TerminateLocked(a) ==
  /\ tst[a] = "start"
  /\ terminateLocked(a, pendingState(a))
  /\ IF ~terminateReturnsEarly(pendingState(a))
     THEN /\ tst' = [tst EXCEPT ![a] = "notify"]
          /\ UNCHANGED <<dpc, cpc, rpc>>
     ELSE /\ tst' = [tst EXCEPT ![a] = "idle"]
          /\ returnTo(a)
  /\ UNCHANGED <<pauseRequested_, toYield_, numThreads_,
                  numDriversUngrouped_, numFinishedOutputDrivers, started,
                  isEnqueued, numSuspensions, hasBlockingFuture, closed,
                  queued, dret, requeue, rounds, rMaxWait, rOutcome, rClose,
                  inDriver, closeByTaskCount, listenerCalls,
                  completionSetValues, completionRequested, resumeCalls,
                  timedOut, mode_, groupSplitsStores, splits, splitPromises,
                  storeNoMoreSplits, noMoreSplits, maxSequenceId,
                  seenSplitGroups_, queuedSplitGroups_, numTotalSplits,
                  numQueuedSplits, barrierRequested_,
                  numDriversUnderBarrier_, numBarriers, driverBarrier,
                  gotBarrier, nextSplitId, handed, accepted,
                  acceptedSequenceId, barrierRequests, barrierThrown,
                  barrierFulfilled, finishCalls, yieldChecks, sinkState,
                  sinkWrittenBytes, sinkError, sinkCalls, planFragment_,
                  numDriversPerSplitGroup_, concurrentSplitGroups_,
                  numRunningSplitGroups_, splitGroupStates_, driverCtxs,
                  partitionedOutputConsumed_, pendingFinished,
                  finishedChecks, lastCall, nextPc, nextI, nextFuture,
                  nextHasBarrier, runnableDrivers, blockedDrivers, futures,
                  nextResult, combined, nextCalls, blocked_, promises_,
                  error_, driverFuture, blocksMade, promisesMade,
                  promisesFulfilled, numRequested, barrierDrivers,
                  allPeersFinishedPromises, peerCalled, peerFuture, peers,
                  peerPromises, groupStarts, queue_, totalBytes_, maxBytes_,
                  numProducers_, producersFinished_, closed_,
                  consumerBlocked_, consumerFuture_,
                  producerUnblockPromises_, ppc, qpc, vector, mayContinue,
                  dequeueResult, enqueued, returned>>

\* The rest of terminate(): notifications, closeByTask, makeFinishFuture.
TerminateRest(a) ==
  /\ tst[a] = "notify"
  /\ terminateNotify(a)
  /\ makeFinishFutureLocked(terminatePromise(a))
  /\ tst' = [tst EXCEPT ![a] = "idle"]
  /\ returnTo(a)
  /\ UNCHANGED <<state_, exception_, pauseRequested_, terminateRequested_,
                  toYield_, numThreads_, numRunningDrivers_,
                  numFinishedDrivers_, numTotalDrivers_,
                  numDriversUngrouped_, numFinishedOutputDrivers, drivers_,
                  taskCompletionPromises_, started, isEnqueued, isTerminated,
                  thread, numSuspensions, hasBlockingFuture, queued, dret,
                  requeue, rounds, rMaxWait, rOutcome, rClose, inDriver,
                  finishedCount, completionRequested, resumeCalls, timedOut,
                  mode_, groupSplitsStores, splits, storeNoMoreSplits,
                  noMoreSplits, maxSequenceId, seenSplitGroups_,
                  queuedSplitGroups_, numTotalSplits, numQueuedSplits,
                  barrierRequested_, barrierFinishPromises_,
                  numDriversUnderBarrier_, numBarriers, driverBarrier,
                  gotBarrier, nextSplitId, handed, accepted,
                  acceptedSequenceId, barrierRequests, barrierThrown,
                  finishCalls, yieldChecks, ignoredTerminate, sinkState,
                  sinkWrittenBytes, sinkError, sinkCalls, planFragment_,
                  numDriversPerSplitGroup_, concurrentSplitGroups_,
                  numRunningSplitGroups_, splitGroupStates_, driverCtxs,
                  partitionedOutputConsumed_, pendingFinished,
                  finishedChecks, lastCall, nextPc, nextI, nextFuture,
                  nextHasBarrier, runnableDrivers, blockedDrivers, futures,
                  nextResult, combined, nextCalls, blocked_, promises_,
                  error_, driverFuture, blocksMade, promisesMade,
                  promisesFulfilled, numRequested, barrierDrivers,
                  allPeersFinishedPromises, peerCalled, peerFuture, peers,
                  peerPromises, groupStarts, queue_, totalBytes_, maxBytes_,
                  numProducers_, producersFinished_, closed_,
                  consumerBlocked_, consumerFuture_,
                  producerUnblockPromises_, ppc, qpc, vector, mayContinue,
                  dequeueResult, enqueued, returned>>

-----------------------------------------------------------------------------
(* Driver::run on an executor thread.                                      *)

\* Driver::enqueue, called with isEnqueued clear.
enqueue(d) ==
  /\ isEnqueued' = [isEnqueued EXCEPT ![d] = TRUE]
  /\ queued' = [queued EXCEPT ![d] = IF closed[d] THEN @ ELSE @ + 1]

\* An executor thread takes a queued Driver::run: runInternal calls
\* Task::enter unless the Driver is closed.
ThreadPick(d) ==
  /\ queued[d] > 0
  /\ queued' = [queued EXCEPT ![d] = @ - 1]
  /\ IF closed[d]
     THEN UNCHANGED <<isEnqueued, isTerminated, thread, hasBlockingFuture,
                      numThreads_, toYield_, yieldChecks, dpc, inDriver,
                      requeue>>
     ELSE /\ enter(d)
          /\ dpc' = [dpc EXCEPT ![d] =
                       IF enterReason(d) = "kNone" THEN "run" ELSE @]
          /\ inDriver' = [inDriver EXCEPT ![d] =
                            IF enterReason(d) = "kNone" THEN @ + 1 ELSE @]
          /\ requeue' = [requeue EXCEPT ![d] =
                           IF enterReason(d) = "kYield" THEN @ + 1 ELSE @]
  /\ UNCHANGED <<state_, exception_, pauseRequested_, terminateRequested_,
                  numRunningDrivers_, numFinishedDrivers_, numTotalDrivers_,
                  numDriversUngrouped_, numFinishedOutputDrivers, drivers_,
                  threadFinishPromises_, taskCompletionPromises_, started,
                  numSuspensions, closed, dret, tst, toff, tprom, cpc, rpc,
                  rounds, rMaxWait, rOutcome, rClose, closeByTaskCount,
                  finishedCount, listenerCalls, completionSetValues,
                  completionRequested, pauseFuture, resumeCalls, timedOut,
                  termFuture, mode_, groupSplitsStores, splits,
                  splitPromises, storeNoMoreSplits, noMoreSplits,
                  maxSequenceId, seenSplitGroups_, queuedSplitGroups_,
                  numTotalSplits, numQueuedSplits, barrierRequested_,
                  barrierFinishPromises_, numDriversUnderBarrier_,
                  numBarriers, driverBarrier, gotBarrier, tbar, nextSplitId,
                  handed, accepted, acceptedSequenceId, barrierRequests,
                  barrierThrown, barrierFulfilled, finishCalls,
                  ignoredTerminate, sinkState, sinkWrittenBytes, sinkError,
                  sinkCalls, planFragment_, numDriversPerSplitGroup_,
                  concurrentSplitGroups_, numRunningSplitGroups_,
                  splitGroupStates_, driverCtxs, partitionedOutputConsumed_,
                  pendingFinished, finishedChecks, lastCall, nextPc, nextI,
                  nextFuture, nextHasBarrier, runnableDrivers,
                  blockedDrivers, futures, nextResult, combined, nextCalls,
                  blocked_, promises_, error_, driverFuture, blocksMade,
                  promisesMade, promisesFulfilled, numRequested,
                  barrierDrivers, allPeersFinishedPromises, peerCalled,
                  peerFuture, peers, peerPromises, groupStarts, queue_,
                  totalBytes_, maxBytes_, numProducers_, producersFinished_,
                  closed_, consumerBlocked_, consumerFuture_,
                  producerUnblockPromises_, ppc, qpc, vector, mayContinue,
                  dequeueResult, enqueued, returned>>

\* Driver::run re-enqueues the Driver after runInternal returned kYield.
DriverRequeue(d) ==
  /\ requeue[d] > 0
  /\ requeue' = [requeue EXCEPT ![d] = @ - 1]
  /\ IF isEnqueued[d]
     THEN UNCHANGED <<isEnqueued, queued>>
     ELSE enqueue(d)
  /\ UNCHANGED <<state_, exception_, pauseRequested_, terminateRequested_,
                  toYield_, numThreads_, numRunningDrivers_,
                  numFinishedDrivers_, numTotalDrivers_,
                  numDriversUngrouped_, numFinishedOutputDrivers, drivers_,
                  threadFinishPromises_, taskCompletionPromises_, started,
                  isTerminated, thread, numSuspensions, hasBlockingFuture,
                  closed, dpc, dret, tst, toff, tprom, cpc, rpc, rounds,
                  rMaxWait, rOutcome, rClose, inDriver, closeByTaskCount,
                  finishedCount, listenerCalls, completionSetValues,
                  completionRequested, pauseFuture, resumeCalls, timedOut,
                  termFuture, mode_, groupSplitsStores, splits,
                  splitPromises, storeNoMoreSplits, noMoreSplits,
                  maxSequenceId, seenSplitGroups_, queuedSplitGroups_,
                  numTotalSplits, numQueuedSplits, barrierRequested_,
                  barrierFinishPromises_, numDriversUnderBarrier_,
                  numBarriers, driverBarrier, gotBarrier, tbar, nextSplitId,
                  handed, accepted, acceptedSequenceId, barrierRequests,
                  barrierThrown, barrierFulfilled, finishCalls, yieldChecks,
                  ignoredTerminate, sinkState, sinkWrittenBytes, sinkError,
                  sinkCalls, planFragment_, numDriversPerSplitGroup_,
                  concurrentSplitGroups_, numRunningSplitGroups_,
                  splitGroupStates_, driverCtxs, partitionedOutputConsumed_,
                  pendingFinished, finishedChecks, lastCall, nextPc, nextI,
                  nextFuture, nextHasBarrier, runnableDrivers,
                  blockedDrivers, futures, nextResult, combined, nextCalls,
                  blocked_, promises_, error_, driverFuture, blocksMade,
                  promisesMade, promisesFulfilled, numRequested,
                  barrierDrivers, allPeersFinishedPromises, peerCalled,
                  peerFuture, peers, peerPromises, groupStarts, queue_,
                  totalBytes_, maxBytes_, numProducers_, producersFinished_,
                  closed_, consumerBlocked_, consumerFuture_,
                  producerUnblockPromises_, ppc, qpc, vector, mayContinue,
                  dequeueResult, enqueued, returned>>

\* Driver::close on the Driver's own thread: closes the operators and calls
\* Task::removeDriver, which calls terminate(kFinished) when all finished.
close(d) ==
  /\ closed' = [closed EXCEPT ![d] = TRUE]
  /\ IF closed[d]
     THEN UNCHANGED <<drivers_, numFinishedOutputDrivers, numRunningDrivers_,
                      numFinishedDrivers_, finishedCount, tst>>
     ELSE /\ removeDriver(d)
          /\ tst' = [tst EXCEPT ![DriverAgent(d)] =
                       IF removeDriverAllFinished(d) THEN "start" ELSE @]

\* The thread goes off the Driver through CancelGuard and Task::leave when
\* runInternal returns 'ret'; driverCb is null after a throw. When leave
\* sees a termination it runs driverCb, which closes the Driver.
leaveStep(d, ret) ==
  /\ leaveLocked(d, ret # "kAlreadyTerminated")
  /\ IF thread'[d]
     THEN /\ close(d)
          /\ dpc' = [dpc EXCEPT ![d] =
                       IF tst'[DriverAgent(d)] = "start" THEN "cbTerm"
                       ELSE "leaveFin"]
          /\ dret' = [dret EXCEPT ![d] = ret]
          /\ UNCHANGED <<inDriver, requeue>>
     ELSE /\ dpc' = [dpc EXCEPT ![d] = "off"]
          /\ dret' = [dret EXCEPT ![d] = "kNone"]
          /\ inDriver' = [inDriver EXCEPT ![d] = @ - 1]
          /\ requeue' = [requeue EXCEPT ![d] =
                           IF ret = "kYield" THEN @ + 1 ELSE @]
          /\ UNCHANGED <<closed, drivers_, numFinishedOutputDrivers,
                         numRunningDrivers_, numFinishedDrivers_,
                         finishedCount, tst>>

\* The Driver loop sees a stop reason in Task::shouldStop.
DriverCheckStop(d) ==
  /\ dpc[d] = "run"
  /\ shouldStop # "kNone"
  /\ dret' = [dret EXCEPT ![d] = shouldStop]
  /\ toYield_' = IF shouldStop = "kYield" THEN toYield_ - 1 ELSE toYield_
  /\ yieldObserved(d)
  /\ dpc' = [dpc EXCEPT ![d] = "leave"]
  /\ UNCHANGED <<state_, exception_, pauseRequested_, terminateRequested_,
                  numThreads_, numRunningDrivers_, numFinishedDrivers_,
                  numTotalDrivers_, numDriversUngrouped_,
                  numFinishedOutputDrivers, drivers_, threadFinishPromises_,
                  taskCompletionPromises_, started, isEnqueued, isTerminated,
                  thread, numSuspensions, hasBlockingFuture, closed, queued,
                  requeue, tst, toff, tprom, cpc, rpc, rounds, rMaxWait,
                  rOutcome, rClose, inDriver, closeByTaskCount,
                  finishedCount, listenerCalls, completionSetValues,
                  completionRequested, pauseFuture, resumeCalls, timedOut,
                  termFuture, mode_, groupSplitsStores, splits,
                  splitPromises, storeNoMoreSplits, noMoreSplits,
                  maxSequenceId, seenSplitGroups_, queuedSplitGroups_,
                  numTotalSplits, numQueuedSplits, barrierRequested_,
                  barrierFinishPromises_, numDriversUnderBarrier_,
                  numBarriers, driverBarrier, gotBarrier, tbar, nextSplitId,
                  handed, accepted, acceptedSequenceId, barrierRequests,
                  barrierThrown, barrierFulfilled, finishCalls,
                  ignoredTerminate, sinkState, sinkWrittenBytes, sinkError,
                  sinkCalls, planFragment_, numDriversPerSplitGroup_,
                  concurrentSplitGroups_, numRunningSplitGroups_,
                  splitGroupStates_, driverCtxs, partitionedOutputConsumed_,
                  pendingFinished, finishedChecks, lastCall, nextPc, nextI,
                  nextFuture, nextHasBarrier, runnableDrivers,
                  blockedDrivers, futures, nextResult, combined, nextCalls,
                  blocked_, promises_, error_, driverFuture, blocksMade,
                  promisesMade, promisesFulfilled, numRequested,
                  barrierDrivers, allPeersFinishedPromises, peerCalled,
                  peerFuture, peers, peerPromises, groupStarts, queue_,
                  totalBytes_, maxBytes_, numProducers_, producersFinished_,
                  closed_, consumerBlocked_, consumerFuture_,
                  producerUnblockPromises_, ppc, qpc, vector, mayContinue,
                  dequeueResult, enqueued, returned>>

\* An operator reports it is blocked: the BlockingState is created and
\* runInternal returns kBlock.
DriverBlock(d) ==
  /\ dpc[d] = "run"
  /\ hasBlockingFuture' = [hasBlockingFuture EXCEPT ![d] = TRUE]
  /\ leaveStep(d, "kBlock")
  /\ UNCHANGED <<state_, exception_, pauseRequested_, terminateRequested_,
                  numTotalDrivers_, numDriversUngrouped_,
                  taskCompletionPromises_, started, isEnqueued,
                  numSuspensions, queued, toff, tprom, cpc, rpc, rounds,
                  rMaxWait, rOutcome, rClose, closeByTaskCount,
                  listenerCalls, completionSetValues, completionRequested,
                  resumeCalls, timedOut, mode_, groupSplitsStores, splits,
                  splitPromises, storeNoMoreSplits, noMoreSplits,
                  maxSequenceId, seenSplitGroups_, queuedSplitGroups_,
                  numTotalSplits, numQueuedSplits, barrierRequested_,
                  barrierFinishPromises_, numDriversUnderBarrier_,
                  numBarriers, driverBarrier, gotBarrier, tbar, nextSplitId,
                  handed, accepted, acceptedSequenceId, barrierRequests,
                  barrierThrown, barrierFulfilled, finishCalls,
                  ignoredTerminate, sinkState, sinkWrittenBytes, sinkError,
                  sinkCalls, planFragment_, numDriversPerSplitGroup_,
                  concurrentSplitGroups_, numRunningSplitGroups_,
                  splitGroupStates_, driverCtxs, partitionedOutputConsumed_,
                  pendingFinished, finishedChecks, lastCall, nextPc, nextI,
                  nextFuture, nextHasBarrier, runnableDrivers,
                  blockedDrivers, futures, nextResult, combined, nextCalls,
                  blocked_, promises_, error_, driverFuture, blocksMade,
                  promisesMade, promisesFulfilled, numRequested,
                  barrierDrivers, allPeersFinishedPromises, peerCalled,
                  peerFuture, peers, peerPromises, groupStarts, queue_,
                  totalBytes_, maxBytes_, numProducers_, producersFinished_,
                  closed_, consumerBlocked_, consumerFuture_,
                  producerUnblockPromises_, ppc, qpc, vector, mayContinue,
                  dequeueResult, enqueued, returned>>

\* The pipeline is at end: runInternal closes the Driver.
DriverFinish(d) ==
  /\ dpc[d] = "run"
  /\ close(d)
  /\ dret' = [dret EXCEPT ![d] = "kAtEnd"]
  /\ dpc' = [dpc EXCEPT ![d] =
               IF tst'[DriverAgent(d)] = "start" THEN "closeTerm" ELSE "leave"]
  /\ UNCHANGED <<state_, exception_, pauseRequested_, terminateRequested_,
                  toYield_, numThreads_, numTotalDrivers_,
                  numDriversUngrouped_, threadFinishPromises_,
                  taskCompletionPromises_, started, isEnqueued, isTerminated,
                  thread, numSuspensions, hasBlockingFuture, queued, requeue,
                  toff, tprom, cpc, rpc, rounds, rMaxWait, rOutcome, rClose,
                  inDriver, closeByTaskCount, listenerCalls,
                  completionSetValues, completionRequested, pauseFuture,
                  resumeCalls, timedOut, termFuture, mode_,
                  groupSplitsStores, splits, splitPromises,
                  storeNoMoreSplits, noMoreSplits, maxSequenceId,
                  seenSplitGroups_, queuedSplitGroups_, numTotalSplits,
                  numQueuedSplits, barrierRequested_, barrierFinishPromises_,
                  numDriversUnderBarrier_, numBarriers, driverBarrier,
                  gotBarrier, tbar, nextSplitId, handed, accepted,
                  acceptedSequenceId, barrierRequests, barrierThrown,
                  barrierFulfilled, finishCalls, yieldChecks,
                  ignoredTerminate, sinkState, sinkWrittenBytes, sinkError,
                  sinkCalls, planFragment_, numDriversPerSplitGroup_,
                  concurrentSplitGroups_, numRunningSplitGroups_,
                  splitGroupStates_, driverCtxs, partitionedOutputConsumed_,
                  pendingFinished, finishedChecks, lastCall, nextPc, nextI,
                  nextFuture, nextHasBarrier, runnableDrivers,
                  blockedDrivers, futures, nextResult, combined, nextCalls,
                  blocked_, promises_, error_, driverFuture, blocksMade,
                  promisesMade, promisesFulfilled, numRequested,
                  barrierDrivers, allPeersFinishedPromises, peerCalled,
                  peerFuture, peers, peerPromises, groupStarts, queue_,
                  totalBytes_, maxBytes_, numProducers_, producersFinished_,
                  closed_, consumerBlocked_, consumerFuture_,
                  producerUnblockPromises_, ppc, qpc, vector, mayContinue,
                  dequeueResult, enqueued, returned>>

\* An operator throws: runInternal catches and calls Task::setError.
DriverThrow(d) ==
  /\ dpc[d] \in {"run", "throw"}
  /\ setError(DriverAgent(d))
  /\ dret' = [dret EXCEPT ![d] = "kAlreadyTerminated"]
  /\ dpc' = [dpc EXCEPT ![d] =
               IF setErrorStores THEN "setErrorTerm" ELSE "throwClose"]
  /\ UNCHANGED <<state_, pauseRequested_, terminateRequested_, toYield_,
                  numThreads_, numRunningDrivers_, numFinishedDrivers_,
                  numTotalDrivers_, numDriversUngrouped_,
                  numFinishedOutputDrivers, drivers_, threadFinishPromises_,
                  taskCompletionPromises_, started, isEnqueued, isTerminated,
                  thread, numSuspensions, hasBlockingFuture, closed, queued,
                  requeue, toff, tprom, cpc, rpc, rounds, rMaxWait, rOutcome,
                  rClose, inDriver, closeByTaskCount, finishedCount,
                  listenerCalls, completionSetValues, completionRequested,
                  pauseFuture, resumeCalls, timedOut, termFuture, mode_,
                  groupSplitsStores, splits, splitPromises,
                  storeNoMoreSplits, noMoreSplits, maxSequenceId,
                  seenSplitGroups_, queuedSplitGroups_, numTotalSplits,
                  numQueuedSplits, barrierRequested_, barrierFinishPromises_,
                  numDriversUnderBarrier_, numBarriers, driverBarrier,
                  gotBarrier, tbar, nextSplitId, handed, accepted,
                  acceptedSequenceId, barrierRequests, barrierThrown,
                  barrierFulfilled, finishCalls, yieldChecks,
                  ignoredTerminate, sinkState, sinkWrittenBytes, sinkError,
                  sinkCalls, planFragment_, numDriversPerSplitGroup_,
                  concurrentSplitGroups_, numRunningSplitGroups_,
                  splitGroupStates_, driverCtxs, partitionedOutputConsumed_,
                  pendingFinished, finishedChecks, lastCall, nextPc, nextI,
                  nextFuture, nextHasBarrier, runnableDrivers,
                  blockedDrivers, futures, nextResult, combined, nextCalls,
                  blocked_, promises_, error_, driverFuture, blocksMade,
                  promisesMade, promisesFulfilled, numRequested,
                  barrierDrivers, allPeersFinishedPromises, peerCalled,
                  peerFuture, peers, peerPromises, groupStarts, queue_,
                  totalBytes_, maxBytes_, numProducers_, producersFinished_,
                  closed_, consumerBlocked_, consumerFuture_,
                  producerUnblockPromises_, ppc, qpc, vector, mayContinue,
                  dequeueResult, enqueued, returned>>

\* CancelGuard after a throw: marks the Driver terminated and closes it.
DriverThrowClose(d) ==
  /\ dpc[d] = "throwClose"
  /\ isTerminated' = [isTerminated EXCEPT ![d] = TRUE]
  /\ close(d)
  /\ dpc' = [dpc EXCEPT ![d] =
               IF tst'[DriverAgent(d)] = "start" THEN "closeTerm" ELSE "leave"]
  /\ UNCHANGED <<state_, exception_, pauseRequested_, terminateRequested_,
                  toYield_, numThreads_, numTotalDrivers_,
                  numDriversUngrouped_, threadFinishPromises_,
                  taskCompletionPromises_, started, isEnqueued, thread,
                  numSuspensions, hasBlockingFuture, queued, dret, requeue,
                  toff, tprom, cpc, rpc, rounds, rMaxWait, rOutcome, rClose,
                  inDriver, closeByTaskCount, listenerCalls,
                  completionSetValues, completionRequested, pauseFuture,
                  resumeCalls, timedOut, termFuture, mode_,
                  groupSplitsStores, splits, splitPromises,
                  storeNoMoreSplits, noMoreSplits, maxSequenceId,
                  seenSplitGroups_, queuedSplitGroups_, numTotalSplits,
                  numQueuedSplits, barrierRequested_, barrierFinishPromises_,
                  numDriversUnderBarrier_, numBarriers, driverBarrier,
                  gotBarrier, tbar, nextSplitId, handed, accepted,
                  acceptedSequenceId, barrierRequests, barrierThrown,
                  barrierFulfilled, finishCalls, yieldChecks,
                  ignoredTerminate, sinkState, sinkWrittenBytes, sinkError,
                  sinkCalls, planFragment_, numDriversPerSplitGroup_,
                  concurrentSplitGroups_, numRunningSplitGroups_,
                  splitGroupStates_, driverCtxs, partitionedOutputConsumed_,
                  pendingFinished, finishedChecks, lastCall, nextPc, nextI,
                  nextFuture, nextHasBarrier, runnableDrivers,
                  blockedDrivers, futures, nextResult, combined, nextCalls,
                  blocked_, promises_, error_, driverFuture, blocksMade,
                  promisesMade, promisesFulfilled, numRequested,
                  barrierDrivers, allPeersFinishedPromises, peerCalled,
                  peerFuture, peers, peerPromises, groupStarts, queue_,
                  totalBytes_, maxBytes_, numProducers_, producersFinished_,
                  closed_, consumerBlocked_, consumerFuture_,
                  producerUnblockPromises_, ppc, qpc, vector, mayContinue,
                  dequeueResult, enqueued, returned>>

\* CancelGuard calls Task::leave.
DriverLeave(d) ==
  /\ dpc[d] = "leave"
  /\ leaveStep(d, dret[d])
  /\ UNCHANGED <<state_, exception_, pauseRequested_, terminateRequested_,
                  numTotalDrivers_, numDriversUngrouped_,
                  taskCompletionPromises_, started, isEnqueued,
                  numSuspensions, hasBlockingFuture, queued, toff, tprom,
                  cpc, rpc, rounds, rMaxWait, rOutcome, rClose,
                  closeByTaskCount, listenerCalls, completionSetValues,
                  completionRequested, resumeCalls, timedOut, mode_,
                  groupSplitsStores, splits, splitPromises,
                  storeNoMoreSplits, noMoreSplits, maxSequenceId,
                  seenSplitGroups_, queuedSplitGroups_, numTotalSplits,
                  numQueuedSplits, barrierRequested_, barrierFinishPromises_,
                  numDriversUnderBarrier_, numBarriers, driverBarrier,
                  gotBarrier, tbar, nextSplitId, handed, accepted,
                  acceptedSequenceId, barrierRequests, barrierThrown,
                  barrierFulfilled, finishCalls, ignoredTerminate, sinkState,
                  sinkWrittenBytes, sinkError, sinkCalls, planFragment_,
                  numDriversPerSplitGroup_, concurrentSplitGroups_,
                  numRunningSplitGroups_, splitGroupStates_, driverCtxs,
                  partitionedOutputConsumed_, pendingFinished,
                  finishedChecks, lastCall, nextPc, nextI, nextFuture,
                  nextHasBarrier, runnableDrivers, blockedDrivers, futures,
                  nextResult, combined, nextCalls, blocked_, promises_,
                  error_, driverFuture, blocksMade, promisesMade,
                  promisesFulfilled, numRequested, barrierDrivers,
                  allPeersFinishedPromises, peerCalled, peerFuture, peers,
                  peerPromises, groupStarts, queue_, totalBytes_, maxBytes_,
                  numProducers_, producersFinished_, closed_,
                  consumerBlocked_, consumerFuture_,
                  producerUnblockPromises_, ppc, qpc, vector, mayContinue,
                  dequeueResult, enqueued, returned>>

\* Task::leave after driverCb: the thread is off the Driver.
DriverLeaveFin(d) ==
  /\ dpc[d] = "leaveFin"
  /\ leaveAfterCb(d)
  /\ dpc' = [dpc EXCEPT ![d] = "off"]
  /\ dret' = [dret EXCEPT ![d] = "kNone"]
  /\ inDriver' = [inDriver EXCEPT ![d] = @ - 1]
  /\ requeue' = [requeue EXCEPT ![d] = IF dret[d] = "kYield" THEN @ + 1 ELSE @]
  /\ UNCHANGED <<state_, exception_, pauseRequested_, terminateRequested_,
                  toYield_, numRunningDrivers_, numFinishedDrivers_,
                  numTotalDrivers_, numDriversUngrouped_,
                  numFinishedOutputDrivers, drivers_,
                  taskCompletionPromises_, started, isEnqueued, isTerminated,
                  numSuspensions, hasBlockingFuture, closed, queued, tst,
                  toff, tprom, cpc, rpc, rounds, rMaxWait, rOutcome, rClose,
                  closeByTaskCount, finishedCount, listenerCalls,
                  completionSetValues, completionRequested, resumeCalls,
                  timedOut, mode_, groupSplitsStores, splits, splitPromises,
                  storeNoMoreSplits, noMoreSplits, maxSequenceId,
                  seenSplitGroups_, queuedSplitGroups_, numTotalSplits,
                  numQueuedSplits, barrierRequested_, barrierFinishPromises_,
                  numDriversUnderBarrier_, numBarriers, driverBarrier,
                  gotBarrier, tbar, nextSplitId, handed, accepted,
                  acceptedSequenceId, barrierRequests, barrierThrown,
                  barrierFulfilled, finishCalls, yieldChecks,
                  ignoredTerminate, sinkState, sinkWrittenBytes, sinkError,
                  sinkCalls, planFragment_, numDriversPerSplitGroup_,
                  concurrentSplitGroups_, numRunningSplitGroups_,
                  splitGroupStates_, driverCtxs, partitionedOutputConsumed_,
                  pendingFinished, finishedChecks, lastCall, nextPc, nextI,
                  nextFuture, nextHasBarrier, runnableDrivers,
                  blockedDrivers, futures, nextResult, combined, nextCalls,
                  blocked_, promises_, error_, driverFuture, blocksMade,
                  promisesMade, promisesFulfilled, numRequested,
                  barrierDrivers, allPeersFinishedPromises, peerCalled,
                  peerFuture, peers, peerPromises, groupStarts, queue_,
                  totalBytes_, maxBytes_, numProducers_, producersFinished_,
                  closed_, consumerBlocked_, consumerFuture_,
                  producerUnblockPromises_, ppc, qpc, vector, mayContinue,
                  dequeueResult, enqueued, returned>>

\* The future a Driver is blocked on is realized: the continuation set by
\* BlockingState::setResume runs on the realizing thread.
FutureReady(d) ==
  /\ dpc[d] = "off"
  /\ hasBlockingFuture[d]
  /\ hasBlockingFuture' = [hasBlockingFuture EXCEPT ![d] = FALSE]
  /\ IF pauseRequested_ \/ isEnqueued[d]
     THEN UNCHANGED <<isEnqueued, queued>>
     ELSE enqueue(d)
  /\ UNCHANGED <<state_, exception_, pauseRequested_, terminateRequested_,
                  toYield_, numThreads_, numRunningDrivers_,
                  numFinishedDrivers_, numTotalDrivers_,
                  numDriversUngrouped_, numFinishedOutputDrivers, drivers_,
                  threadFinishPromises_, taskCompletionPromises_, started,
                  isTerminated, thread, numSuspensions, closed, dpc, dret,
                  requeue, tst, toff, tprom, cpc, rpc, rounds, rMaxWait,
                  rOutcome, rClose, inDriver, closeByTaskCount,
                  finishedCount, listenerCalls, completionSetValues,
                  completionRequested, pauseFuture, resumeCalls, timedOut,
                  termFuture, mode_, groupSplitsStores, splits,
                  splitPromises, storeNoMoreSplits, noMoreSplits,
                  maxSequenceId, seenSplitGroups_, queuedSplitGroups_,
                  numTotalSplits, numQueuedSplits, barrierRequested_,
                  barrierFinishPromises_, numDriversUnderBarrier_,
                  numBarriers, driverBarrier, gotBarrier, tbar, nextSplitId,
                  handed, accepted, acceptedSequenceId, barrierRequests,
                  barrierThrown, barrierFulfilled, finishCalls, yieldChecks,
                  ignoredTerminate, sinkState, sinkWrittenBytes, sinkError,
                  sinkCalls, planFragment_, numDriversPerSplitGroup_,
                  concurrentSplitGroups_, numRunningSplitGroups_,
                  splitGroupStates_, driverCtxs, partitionedOutputConsumed_,
                  pendingFinished, finishedChecks, lastCall, nextPc, nextI,
                  nextFuture, nextHasBarrier, runnableDrivers,
                  blockedDrivers, futures, nextResult, combined, nextCalls,
                  blocked_, promises_, error_, driverFuture, blocksMade,
                  promisesMade, promisesFulfilled, numRequested,
                  barrierDrivers, allPeersFinishedPromises, peerCalled,
                  peerFuture, peers, peerPromises, groupStarts, queue_,
                  totalBytes_, maxBytes_, numProducers_, producersFinished_,
                  closed_, consumerBlocked_, consumerFuture_,
                  producerUnblockPromises_, ppc, qpc, vector, mayContinue,
                  dequeueResult, enqueued, returned>>

\* A SuspendedSection is opened on the Driver's thread; a stop reason other
\* than kNone makes its constructor throw.
DriverEnterSuspended(d) ==
  /\ dpc[d] \in {"run", "susp"}
  /\ dret[d] # "kAlreadyTerminated"
  /\ numSuspensions[d] < MaxSuspensions
  /\ enterSuspended(d)
  /\ IF enterSuspendedReason(d) = "kNone"
     THEN /\ dpc' = [dpc EXCEPT ![d] = "susp"]
          /\ UNCHANGED dret
     ELSE /\ dret' = [dret EXCEPT ![d] = "kAlreadyTerminated"]
          /\ dpc' = [dpc EXCEPT ![d] = IF @ = "run" THEN "throw" ELSE @]
  /\ UNCHANGED <<state_, exception_, pauseRequested_, terminateRequested_,
                  numRunningDrivers_, numFinishedDrivers_, numTotalDrivers_,
                  numDriversUngrouped_, numFinishedOutputDrivers, drivers_,
                  taskCompletionPromises_, started, isEnqueued, thread,
                  hasBlockingFuture, closed, queued, requeue, tst, toff,
                  tprom, cpc, rpc, rounds, rMaxWait, rOutcome, rClose,
                  inDriver, closeByTaskCount, finishedCount, listenerCalls,
                  completionSetValues, completionRequested, resumeCalls,
                  timedOut, mode_, groupSplitsStores, splits, splitPromises,
                  storeNoMoreSplits, noMoreSplits, maxSequenceId,
                  seenSplitGroups_, queuedSplitGroups_, numTotalSplits,
                  numQueuedSplits, barrierRequested_, barrierFinishPromises_,
                  numDriversUnderBarrier_, numBarriers, driverBarrier,
                  gotBarrier, tbar, nextSplitId, handed, accepted,
                  acceptedSequenceId, barrierRequests, barrierThrown,
                  barrierFulfilled, finishCalls, ignoredTerminate, sinkState,
                  sinkWrittenBytes, sinkError, sinkCalls, planFragment_,
                  numDriversPerSplitGroup_, concurrentSplitGroups_,
                  numRunningSplitGroups_, splitGroupStates_, driverCtxs,
                  partitionedOutputConsumed_, pendingFinished,
                  finishedChecks, lastCall, nextPc, nextI, nextFuture,
                  nextHasBarrier, runnableDrivers, blockedDrivers, futures,
                  nextResult, combined, nextCalls, blocked_, promises_,
                  error_, driverFuture, blocksMade, promisesMade,
                  promisesFulfilled, numRequested, barrierDrivers,
                  allPeersFinishedPromises, peerCalled, peerFuture, peers,
                  peerPromises, groupStarts, queue_, totalBytes_, maxBytes_,
                  numProducers_, producersFinished_, closed_,
                  consumerBlocked_, consumerFuture_,
                  producerUnblockPromises_, ppc, qpc, vector, mayContinue,
                  dequeueResult, enqueued, returned>>

\* A SuspendedSection is closed.
DriverLeaveSuspended(d) ==
  /\ dpc[d] = "susp"
  /\ leaveSuspended(d)
  /\ dpc' = [dpc EXCEPT ![d] =
               IF numSuspensions'[d] > 0 THEN "susp"
               ELSE IF dret[d] = "kAlreadyTerminated" THEN "throw"
               ELSE "run"]
  /\ UNCHANGED <<state_, exception_, pauseRequested_, terminateRequested_,
                  toYield_, numRunningDrivers_, numFinishedDrivers_,
                  numTotalDrivers_, numDriversUngrouped_,
                  numFinishedOutputDrivers, drivers_, threadFinishPromises_,
                  taskCompletionPromises_, started, isEnqueued, thread,
                  hasBlockingFuture, closed, queued, dret, requeue, tst,
                  toff, tprom, cpc, rpc, rounds, rMaxWait, rOutcome, rClose,
                  inDriver, closeByTaskCount, finishedCount, listenerCalls,
                  completionSetValues, completionRequested, pauseFuture,
                  resumeCalls, timedOut, termFuture, mode_,
                  groupSplitsStores, splits, splitPromises,
                  storeNoMoreSplits, noMoreSplits, maxSequenceId,
                  seenSplitGroups_, queuedSplitGroups_, numTotalSplits,
                  numQueuedSplits, barrierRequested_, barrierFinishPromises_,
                  numDriversUnderBarrier_, numBarriers, driverBarrier,
                  gotBarrier, tbar, nextSplitId, handed, accepted,
                  acceptedSequenceId, barrierRequests, barrierThrown,
                  barrierFulfilled, finishCalls, yieldChecks,
                  ignoredTerminate, sinkState, sinkWrittenBytes, sinkError,
                  sinkCalls, planFragment_, numDriversPerSplitGroup_,
                  concurrentSplitGroups_, numRunningSplitGroups_,
                  splitGroupStates_, driverCtxs, partitionedOutputConsumed_,
                  pendingFinished, finishedChecks, lastCall, nextPc, nextI,
                  nextFuture, nextHasBarrier, runnableDrivers,
                  blockedDrivers, futures, nextResult, combined, nextCalls,
                  blocked_, promises_, error_, driverFuture, blocksMade,
                  promisesMade, promisesFulfilled, numRequested,
                  barrierDrivers, allPeersFinishedPromises, peerCalled,
                  peerFuture, peers, peerPromises, groupStarts, queue_,
                  totalBytes_, maxBytes_, numProducers_, producersFinished_,
                  closed_, consumerBlocked_, consumerFuture_,
                  producerUnblockPromises_, ppc, qpc, vector, mayContinue,
                  dequeueResult, enqueued, returned>>

-----------------------------------------------------------------------------
(* Task::requestPause, Task::resume                                        *)

\* Task::requestPause
requestPause ==
  /\ pauseRequested_' = TRUE
  /\ makeFinishFutureLocked("pause")

\* Drivers Task::resume looks at in its loop over a Running task: present,
\* not suspended and not enqueued.
resumeCandidates ==
  {d \in Drivers : drivers_[d] /\ ~suspended(d) /\ ~isEnqueued[d]}

\* The first slot at which a VELOX_CHECK of Task::resume fails and ends its
\* loop with an exception (MaxDrivers + 1 when none does).
resumeFirstFailure ==
  LET bad == IF isRunningLocked
             THEN {d \in resumeCandidates : thread[d] \/ isTerminated[d]}
             ELSE {d \in Drivers :
                     drivers_[d] /\ thread[d] /\ ~isTerminated[d]}
  IN IF bad = {} THEN MaxDrivers + 1
     ELSE CHOOSE d \in bad : \A e \in bad : d <= e

\* Task::resume, its critical section.
resume ==
  /\ pauseRequested_' = FALSE
  /\ IF isRunningLocked
     THEN LET enq == {d \in resumeCandidates :
                        d < resumeFirstFailure /\ ~hasBlockingFuture[d]}
          IN /\ isEnqueued' = [d \in Drivers |-> isEnqueued[d] \/ d \in enq]
             /\ queued' = [d \in Drivers |->
                             IF d \in enq /\ ~closed[d] THEN queued[d] + 1
                             ELSE queued[d]]
             /\ rClose' = {}
             /\ UNCHANGED <<isTerminated, thread, drivers_,
                            numFinishedDrivers_, finishedCount>>
     ELSE LET off == {d \in Drivers :
                        /\ d < resumeFirstFailure
                        /\ drivers_[d] /\ ~thread[d] /\ ~isTerminated[d]}
          IN /\ isTerminated' = [d \in Drivers |-> isTerminated[d] \/ d \in off]
             /\ thread' = [d \in Drivers |-> thread[d] \/ d \in off]
             /\ drivers_' = [d \in Drivers |-> drivers_[d] /\ d \notin off]
             /\ numFinishedDrivers_' = numFinishedDrivers_ + Cardinality(off)
             /\ finishedCount' =
                  [d \in Drivers |->
                     finishedCount[d] + IF d \in off THEN 1 ELSE 0]
             /\ rClose' = off
             /\ UNCHANGED <<isEnqueued, queued>>

\* Task::resume, its SCOPE_EXIT: closeByTask of the Drivers collected.
resumeClose ==
  /\ closeByTaskCount' =
       [d \in Drivers |-> closeByTaskCount[d] + IF d \in rClose THEN 1 ELSE 0]
  /\ closed' = [d \in Drivers |-> closed[d] \/ d \in rClose]
  /\ rClose' = {}

-----------------------------------------------------------------------------
(* Task::MemoryReclaimer::reclaim (reclaimTask)                            *)

\* Task::isCancelled
isCancelled == terminateRequested_

\* reclaim() is called with maxWaitMs = w: requestPause.
ReclaimStart(w) ==
  /\ rpc = "idle"
  /\ rounds < MaxReclaims
  /\ requestPause
  /\ rMaxWait' = w
  /\ rpc' = "waitPause"
  /\ UNCHANGED <<state_, exception_, terminateRequested_, toYield_,
                  numThreads_, numRunningDrivers_, numFinishedDrivers_,
                  numTotalDrivers_, numDriversUngrouped_,
                  numFinishedOutputDrivers, drivers_,
                  taskCompletionPromises_, started, isEnqueued, isTerminated,
                  thread, numSuspensions, hasBlockingFuture, closed, queued,
                  dpc, dret, requeue, tst, toff, tprom, cpc, rounds,
                  rOutcome, rClose, inDriver, closeByTaskCount,
                  finishedCount, listenerCalls, completionSetValues,
                  completionRequested, resumeCalls, timedOut, mode_,
                  groupSplitsStores, splits, splitPromises,
                  storeNoMoreSplits, noMoreSplits, maxSequenceId,
                  seenSplitGroups_, queuedSplitGroups_, numTotalSplits,
                  numQueuedSplits, barrierRequested_, barrierFinishPromises_,
                  numDriversUnderBarrier_, numBarriers, driverBarrier,
                  gotBarrier, tbar, nextSplitId, handed, accepted,
                  acceptedSequenceId, barrierRequests, barrierThrown,
                  barrierFulfilled, finishCalls, yieldChecks,
                  ignoredTerminate, sinkState, sinkWrittenBytes, sinkError,
                  sinkCalls, planFragment_, numDriversPerSplitGroup_,
                  concurrentSplitGroups_, numRunningSplitGroups_,
                  splitGroupStates_, driverCtxs, partitionedOutputConsumed_,
                  pendingFinished, finishedChecks, lastCall, nextPc, nextI,
                  nextFuture, nextHasBarrier, runnableDrivers,
                  blockedDrivers, futures, nextResult, combined, nextCalls,
                  blocked_, promises_, error_, driverFuture, blocksMade,
                  promisesMade, promisesFulfilled, numRequested,
                  barrierDrivers, allPeersFinishedPromises, peerCalled,
                  peerFuture, peers, peerPromises, groupStarts, queue_,
                  totalBytes_, maxBytes_, numProducers_, producersFinished_,
                  closed_, consumerBlocked_, consumerFuture_,
                  producerUnblockPromises_, ppc, qpc, vector, mayContinue,
                  dequeueResult, enqueued, returned>>

\* The wait on the pause future returns true.
ReclaimPaused ==
  /\ rpc = "waitPause"
  /\ pauseFuture = "ready"
  /\ IF isCancelled
     THEN /\ rOutcome' = "cancelled"
          /\ rpc' = "resume"
     ELSE /\ rpc' = "reclaim"
          /\ UNCHANGED rOutcome
  /\ rMaxWait' = 0
  /\ UNCHANGED <<state_, exception_, pauseRequested_, terminateRequested_,
                  toYield_, numThreads_, numRunningDrivers_,
                  numFinishedDrivers_, numTotalDrivers_,
                  numDriversUngrouped_, numFinishedOutputDrivers, drivers_,
                  threadFinishPromises_, taskCompletionPromises_, started,
                  isEnqueued, isTerminated, thread, numSuspensions,
                  hasBlockingFuture, closed, queued, dpc, dret, requeue, tst,
                  toff, tprom, cpc, rounds, rClose, inDriver,
                  closeByTaskCount, finishedCount, listenerCalls,
                  completionSetValues, completionRequested, pauseFuture,
                  resumeCalls, timedOut, termFuture, mode_,
                  groupSplitsStores, splits, splitPromises,
                  storeNoMoreSplits, noMoreSplits, maxSequenceId,
                  seenSplitGroups_, queuedSplitGroups_, numTotalSplits,
                  numQueuedSplits, barrierRequested_, barrierFinishPromises_,
                  numDriversUnderBarrier_, numBarriers, driverBarrier,
                  gotBarrier, tbar, nextSplitId, handed, accepted,
                  acceptedSequenceId, barrierRequests, barrierThrown,
                  barrierFulfilled, finishCalls, yieldChecks,
                  ignoredTerminate, sinkState, sinkWrittenBytes, sinkError,
                  sinkCalls, planFragment_, numDriversPerSplitGroup_,
                  concurrentSplitGroups_, numRunningSplitGroups_,
                  splitGroupStates_, driverCtxs, partitionedOutputConsumed_,
                  pendingFinished, finishedChecks, lastCall, nextPc, nextI,
                  nextFuture, nextHasBarrier, runnableDrivers,
                  blockedDrivers, futures, nextResult, combined, nextCalls,
                  blocked_, promises_, error_, driverFuture, blocksMade,
                  promisesMade, promisesFulfilled, numRequested,
                  barrierDrivers, allPeersFinishedPromises, peerCalled,
                  peerFuture, peers, peerPromises, groupStarts, queue_,
                  totalBytes_, maxBytes_, numProducers_, producersFinished_,
                  closed_, consumerBlocked_, consumerFuture_,
                  producerUnblockPromises_, ppc, qpc, vector, mayContinue,
                  dequeueResult, enqueued, returned>>

\* The wait on the pause future times out and reclaimTask fails without
\* running its resumeGuard.
ReclaimTimeoutNoGuard ==
  /\ rpc = "waitPause"
  /\ rMaxWait # 0
  /\ pauseFuture = "pending"
  /\ rOutcome' = "timeout"
  /\ timedOut' = TRUE
  /\ rMaxWait' = 0
  /\ rpc' = "resumeClose"
  /\ UNCHANGED <<state_, exception_, pauseRequested_, terminateRequested_,
                  toYield_, numThreads_, numRunningDrivers_,
                  numFinishedDrivers_, numTotalDrivers_,
                  numDriversUngrouped_, numFinishedOutputDrivers, drivers_,
                  threadFinishPromises_, taskCompletionPromises_, started,
                  isEnqueued, isTerminated, thread, numSuspensions,
                  hasBlockingFuture, closed, queued, dpc, dret, requeue, tst,
                  toff, tprom, cpc, rounds, rClose, inDriver,
                  closeByTaskCount, finishedCount, listenerCalls,
                  completionSetValues, completionRequested, pauseFuture,
                  resumeCalls, termFuture, mode_, groupSplitsStores, splits,
                  splitPromises, storeNoMoreSplits, noMoreSplits,
                  maxSequenceId, seenSplitGroups_, queuedSplitGroups_,
                  numTotalSplits, numQueuedSplits, barrierRequested_,
                  barrierFinishPromises_, numDriversUnderBarrier_,
                  numBarriers, driverBarrier, gotBarrier, tbar, nextSplitId,
                  handed, accepted, acceptedSequenceId, barrierRequests,
                  barrierThrown, barrierFulfilled, finishCalls, yieldChecks,
                  ignoredTerminate, sinkState, sinkWrittenBytes, sinkError,
                  sinkCalls, planFragment_, numDriversPerSplitGroup_,
                  concurrentSplitGroups_, numRunningSplitGroups_,
                  splitGroupStates_, driverCtxs, partitionedOutputConsumed_,
                  pendingFinished, finishedChecks, lastCall, nextPc, nextI,
                  nextFuture, nextHasBarrier, runnableDrivers,
                  blockedDrivers, futures, nextResult, combined, nextCalls,
                  blocked_, promises_, error_, driverFuture, blocksMade,
                  promisesMade, promisesFulfilled, numRequested,
                  barrierDrivers, allPeersFinishedPromises, peerCalled,
                  peerFuture, peers, peerPromises, groupStarts, queue_,
                  totalBytes_, maxBytes_, numProducers_, producersFinished_,
                  closed_, consumerBlocked_, consumerFuture_,
                  producerUnblockPromises_, ppc, qpc, vector, mayContinue,
                  dequeueResult, enqueued, returned>>

\* The wait on the pause future times out.
ReclaimTimeout ==
  /\ rpc = "waitPause"
  /\ rMaxWait # 0
  /\ pauseFuture = "pending"
  /\ rOutcome' = "timeout"
  /\ timedOut' = TRUE
  /\ rMaxWait' = 0
  /\ rpc' = "resume"
  /\ UNCHANGED <<state_, exception_, pauseRequested_, terminateRequested_,
                  toYield_, numThreads_, numRunningDrivers_,
                  numFinishedDrivers_, numTotalDrivers_,
                  numDriversUngrouped_, numFinishedOutputDrivers, drivers_,
                  threadFinishPromises_, taskCompletionPromises_, started,
                  isEnqueued, isTerminated, thread, numSuspensions,
                  hasBlockingFuture, closed, queued, dpc, dret, requeue, tst,
                  toff, tprom, cpc, rounds, rClose, inDriver,
                  closeByTaskCount, finishedCount, listenerCalls,
                  completionSetValues, completionRequested, pauseFuture,
                  resumeCalls, termFuture, mode_, groupSplitsStores, splits,
                  splitPromises, storeNoMoreSplits, noMoreSplits,
                  maxSequenceId, seenSplitGroups_, queuedSplitGroups_,
                  numTotalSplits, numQueuedSplits, barrierRequested_,
                  barrierFinishPromises_, numDriversUnderBarrier_,
                  numBarriers, driverBarrier, gotBarrier, tbar, nextSplitId,
                  handed, accepted, acceptedSequenceId, barrierRequests,
                  barrierThrown, barrierFulfilled, finishCalls, yieldChecks,
                  ignoredTerminate, sinkState, sinkWrittenBytes, sinkError,
                  sinkCalls, planFragment_, numDriversPerSplitGroup_,
                  concurrentSplitGroups_, numRunningSplitGroups_,
                  splitGroupStates_, driverCtxs, partitionedOutputConsumed_,
                  pendingFinished, finishedChecks, lastCall, nextPc, nextI,
                  nextFuture, nextHasBarrier, runnableDrivers,
                  blockedDrivers, futures, nextResult, combined, nextCalls,
                  blocked_, promises_, error_, driverFuture, blocksMade,
                  promisesMade, promisesFulfilled, numRequested,
                  barrierDrivers, allPeersFinishedPromises, peerCalled,
                  peerFuture, peers, peerPromises, groupStarts, queue_,
                  totalBytes_, maxBytes_, numProducers_, producersFinished_,
                  closed_, consumerBlocked_, consumerFuture_,
                  producerUnblockPromises_, ppc, qpc, vector, mayContinue,
                  dequeueResult, enqueued, returned>>

\* memory::MemoryReclaimer::reclaim on the pool tree returns.
ReclaimPool ==
  /\ rpc = "reclaim"
  /\ rOutcome' = "ok"
  /\ rpc' = "resume"
  /\ UNCHANGED <<state_, exception_, pauseRequested_, terminateRequested_,
                  toYield_, numThreads_, numRunningDrivers_,
                  numFinishedDrivers_, numTotalDrivers_,
                  numDriversUngrouped_, numFinishedOutputDrivers, drivers_,
                  threadFinishPromises_, taskCompletionPromises_, started,
                  isEnqueued, isTerminated, thread, numSuspensions,
                  hasBlockingFuture, closed, queued, dpc, dret, requeue, tst,
                  toff, tprom, cpc, rounds, rMaxWait, rClose, inDriver,
                  closeByTaskCount, finishedCount, listenerCalls,
                  completionSetValues, completionRequested, pauseFuture,
                  resumeCalls, timedOut, termFuture, mode_,
                  groupSplitsStores, splits, splitPromises,
                  storeNoMoreSplits, noMoreSplits, maxSequenceId,
                  seenSplitGroups_, queuedSplitGroups_, numTotalSplits,
                  numQueuedSplits, barrierRequested_, barrierFinishPromises_,
                  numDriversUnderBarrier_, numBarriers, driverBarrier,
                  gotBarrier, tbar, nextSplitId, handed, accepted,
                  acceptedSequenceId, barrierRequests, barrierThrown,
                  barrierFulfilled, finishCalls, yieldChecks,
                  ignoredTerminate, sinkState, sinkWrittenBytes, sinkError,
                  sinkCalls, planFragment_, numDriversPerSplitGroup_,
                  concurrentSplitGroups_, numRunningSplitGroups_,
                  splitGroupStates_, driverCtxs, partitionedOutputConsumed_,
                  pendingFinished, finishedChecks, lastCall, nextPc, nextI,
                  nextFuture, nextHasBarrier, runnableDrivers,
                  blockedDrivers, futures, nextResult, combined, nextCalls,
                  blocked_, promises_, error_, driverFuture, blocksMade,
                  promisesMade, promisesFulfilled, numRequested,
                  barrierDrivers, allPeersFinishedPromises, peerCalled,
                  peerFuture, peers, peerPromises, groupStarts, queue_,
                  totalBytes_, maxBytes_, numProducers_, producersFinished_,
                  closed_, consumerBlocked_, consumerFuture_,
                  producerUnblockPromises_, ppc, qpc, vector, mayContinue,
                  dequeueResult, enqueued, returned>>

\* memory::MemoryReclaimer::reclaim on the pool tree throws: the catch
\* block of reclaimTask calls Task::setError.
ReclaimPoolThrows ==
  /\ rpc = "reclaim"
  /\ rOutcome' = "threw"
  /\ setError(ReclaimAgent)
  /\ rpc' = IF setErrorStores THEN "setErrorTerm" ELSE "resume"
  /\ UNCHANGED <<state_, pauseRequested_, terminateRequested_, toYield_,
                  numThreads_, numRunningDrivers_, numFinishedDrivers_,
                  numTotalDrivers_, numDriversUngrouped_,
                  numFinishedOutputDrivers, drivers_, threadFinishPromises_,
                  taskCompletionPromises_, started, isEnqueued, isTerminated,
                  thread, numSuspensions, hasBlockingFuture, closed, queued,
                  dpc, dret, requeue, toff, tprom, cpc, rounds, rMaxWait,
                  rClose, inDriver, closeByTaskCount, finishedCount,
                  listenerCalls, completionSetValues, completionRequested,
                  pauseFuture, resumeCalls, timedOut, termFuture, mode_,
                  groupSplitsStores, splits, splitPromises,
                  storeNoMoreSplits, noMoreSplits, maxSequenceId,
                  seenSplitGroups_, queuedSplitGroups_, numTotalSplits,
                  numQueuedSplits, barrierRequested_, barrierFinishPromises_,
                  numDriversUnderBarrier_, numBarriers, driverBarrier,
                  gotBarrier, tbar, nextSplitId, handed, accepted,
                  acceptedSequenceId, barrierRequests, barrierThrown,
                  barrierFulfilled, finishCalls, yieldChecks,
                  ignoredTerminate, sinkState, sinkWrittenBytes, sinkError,
                  sinkCalls, planFragment_, numDriversPerSplitGroup_,
                  concurrentSplitGroups_, numRunningSplitGroups_,
                  splitGroupStates_, driverCtxs, partitionedOutputConsumed_,
                  pendingFinished, finishedChecks, lastCall, nextPc, nextI,
                  nextFuture, nextHasBarrier, runnableDrivers,
                  blockedDrivers, futures, nextResult, combined, nextCalls,
                  blocked_, promises_, error_, driverFuture, blocksMade,
                  promisesMade, promisesFulfilled, numRequested,
                  barrierDrivers, allPeersFinishedPromises, peerCalled,
                  peerFuture, peers, peerPromises, groupStarts, queue_,
                  totalBytes_, maxBytes_, numProducers_, producersFinished_,
                  closed_, consumerBlocked_, consumerFuture_,
                  producerUnblockPromises_, ppc, qpc, vector, mayContinue,
                  dequeueResult, enqueued, returned>>

\* resumeGuard of reclaimTask: Task::resume.
ReclaimResume ==
  /\ rpc = "resume"
  /\ resume
  /\ resumeCalls' = resumeCalls + 1
  /\ rpc' = "resumeClose"
  /\ UNCHANGED <<state_, exception_, terminateRequested_, toYield_,
                  numThreads_, numRunningDrivers_, numTotalDrivers_,
                  numDriversUngrouped_, numFinishedOutputDrivers,
                  threadFinishPromises_, taskCompletionPromises_, started,
                  numSuspensions, hasBlockingFuture, closed, dpc, dret,
                  requeue, tst, toff, tprom, cpc, rounds, rMaxWait, rOutcome,
                  inDriver, closeByTaskCount, listenerCalls,
                  completionSetValues, completionRequested, pauseFuture,
                  timedOut, termFuture, mode_, groupSplitsStores, splits,
                  splitPromises, storeNoMoreSplits, noMoreSplits,
                  maxSequenceId, seenSplitGroups_, queuedSplitGroups_,
                  numTotalSplits, numQueuedSplits, barrierRequested_,
                  barrierFinishPromises_, numDriversUnderBarrier_,
                  numBarriers, driverBarrier, gotBarrier, tbar, nextSplitId,
                  handed, accepted, acceptedSequenceId, barrierRequests,
                  barrierThrown, barrierFulfilled, finishCalls, yieldChecks,
                  ignoredTerminate, sinkState, sinkWrittenBytes, sinkError,
                  sinkCalls, planFragment_, numDriversPerSplitGroup_,
                  concurrentSplitGroups_, numRunningSplitGroups_,
                  splitGroupStates_, driverCtxs, partitionedOutputConsumed_,
                  pendingFinished, finishedChecks, lastCall, nextPc, nextI,
                  nextFuture, nextHasBarrier, runnableDrivers,
                  blockedDrivers, futures, nextResult, combined, nextCalls,
                  blocked_, promises_, error_, driverFuture, blocksMade,
                  promisesMade, promisesFulfilled, numRequested,
                  barrierDrivers, allPeersFinishedPromises, peerCalled,
                  peerFuture, peers, peerPromises, groupStarts, queue_,
                  totalBytes_, maxBytes_, numProducers_, producersFinished_,
                  closed_, consumerBlocked_, consumerFuture_,
                  producerUnblockPromises_, ppc, qpc, vector, mayContinue,
                  dequeueResult, enqueued, returned>>

\* Task::resume closes the Drivers it collected; reclaim() returns or
\* rethrows.
ReclaimReturn ==
  /\ rpc = "resumeClose"
  /\ resumeClose
  /\ rounds' = rounds + 1
  /\ rOutcome' = "none"
  /\ resumeCalls' = 0
  /\ pauseFuture' = "none"
  /\ rpc' = "idle"
  /\ UNCHANGED <<state_, exception_, pauseRequested_, terminateRequested_,
                  toYield_, numThreads_, numRunningDrivers_,
                  numFinishedDrivers_, numTotalDrivers_,
                  numDriversUngrouped_, numFinishedOutputDrivers, drivers_,
                  threadFinishPromises_, taskCompletionPromises_, started,
                  isEnqueued, isTerminated, thread, numSuspensions,
                  hasBlockingFuture, queued, dpc, dret, requeue, tst, toff,
                  tprom, cpc, rMaxWait, inDriver, finishedCount,
                  listenerCalls, completionSetValues, completionRequested,
                  timedOut, termFuture, mode_, groupSplitsStores, splits,
                  splitPromises, storeNoMoreSplits, noMoreSplits,
                  maxSequenceId, seenSplitGroups_, queuedSplitGroups_,
                  numTotalSplits, numQueuedSplits, barrierRequested_,
                  barrierFinishPromises_, numDriversUnderBarrier_,
                  numBarriers, driverBarrier, gotBarrier, tbar, nextSplitId,
                  handed, accepted, acceptedSequenceId, barrierRequests,
                  barrierThrown, barrierFulfilled, finishCalls, yieldChecks,
                  ignoredTerminate, sinkState, sinkWrittenBytes, sinkError,
                  sinkCalls, planFragment_, numDriversPerSplitGroup_,
                  concurrentSplitGroups_, numRunningSplitGroups_,
                  splitGroupStates_, driverCtxs, partitionedOutputConsumed_,
                  pendingFinished, finishedChecks, lastCall, nextPc, nextI,
                  nextFuture, nextHasBarrier, runnableDrivers,
                  blockedDrivers, futures, nextResult, combined, nextCalls,
                  blocked_, promises_, error_, driverFuture, blocksMade,
                  promisesMade, promisesFulfilled, numRequested,
                  barrierDrivers, allPeersFinishedPromises, peerCalled,
                  peerFuture, peers, peerPromises, groupStarts, queue_,
                  totalBytes_, maxBytes_, numProducers_, producersFinished_,
                  closed_, consumerBlocked_, consumerFuture_,
                  producerUnblockPromises_, ppc, qpc, vector, mayContinue,
                  dequeueResult, enqueued, returned>>

-----------------------------------------------------------------------------
(* The external caller: requestCancel, requestAbort, setError,             *)
(* taskCompletionFuture.                                                   *)

\* Task::requestCancel / Task::requestAbort: terminate(st).
CallTerminate(st) ==
  /\ cpc = "idle"
  /\ terminateLocked(CallerAgent, st)
  /\ IF ~terminateReturnsEarly(st)
     THEN /\ tst' = [tst EXCEPT ![CallerAgent] = "notify"]
          /\ cpc' = "call"
     ELSE UNCHANGED <<tst, cpc>>
  /\ UNCHANGED <<pauseRequested_, toYield_, numThreads_,
                  numDriversUngrouped_, numFinishedOutputDrivers, started,
                  isEnqueued, numSuspensions, hasBlockingFuture, closed,
                  queued, dpc, dret, requeue, rpc, rounds, rMaxWait,
                  rOutcome, rClose, inDriver, closeByTaskCount,
                  listenerCalls, completionSetValues, completionRequested,
                  resumeCalls, timedOut, mode_, groupSplitsStores, splits,
                  splitPromises, storeNoMoreSplits, noMoreSplits,
                  maxSequenceId, seenSplitGroups_, queuedSplitGroups_,
                  numTotalSplits, numQueuedSplits, barrierRequested_,
                  numDriversUnderBarrier_, numBarriers, driverBarrier,
                  gotBarrier, nextSplitId, handed, accepted,
                  acceptedSequenceId, barrierRequests, barrierThrown,
                  barrierFulfilled, finishCalls, yieldChecks, sinkState,
                  sinkWrittenBytes, sinkError, sinkCalls, planFragment_,
                  numDriversPerSplitGroup_, concurrentSplitGroups_,
                  numRunningSplitGroups_, splitGroupStates_, driverCtxs,
                  partitionedOutputConsumed_, pendingFinished,
                  finishedChecks, lastCall, nextPc, nextI, nextFuture,
                  nextHasBarrier, runnableDrivers, blockedDrivers, futures,
                  nextResult, combined, nextCalls, blocked_, promises_,
                  error_, driverFuture, blocksMade, promisesMade,
                  promisesFulfilled, numRequested, barrierDrivers,
                  allPeersFinishedPromises, peerCalled, peerFuture, peers,
                  peerPromises, groupStarts, queue_, totalBytes_, maxBytes_,
                  numProducers_, producersFinished_, closed_,
                  consumerBlocked_, consumerFuture_,
                  producerUnblockPromises_, ppc, qpc, vector, mayContinue,
                  dequeueResult, enqueued, returned>>

\* Task::setError called from outside the Drivers.
CallSetError ==
  /\ cpc = "idle"
  /\ setError(CallerAgent)
  /\ cpc' = IF setErrorStores THEN "call" ELSE "idle"
  /\ UNCHANGED <<state_, pauseRequested_, terminateRequested_, toYield_,
                  numThreads_, numRunningDrivers_, numFinishedDrivers_,
                  numTotalDrivers_, numDriversUngrouped_,
                  numFinishedOutputDrivers, drivers_, threadFinishPromises_,
                  taskCompletionPromises_, started, isEnqueued, isTerminated,
                  thread, numSuspensions, hasBlockingFuture, closed, queued,
                  dpc, dret, requeue, toff, tprom, rpc, rounds, rMaxWait,
                  rOutcome, rClose, inDriver, closeByTaskCount,
                  finishedCount, listenerCalls, completionSetValues,
                  completionRequested, pauseFuture, resumeCalls, timedOut,
                  termFuture, mode_, groupSplitsStores, splits,
                  splitPromises, storeNoMoreSplits, noMoreSplits,
                  maxSequenceId, seenSplitGroups_, queuedSplitGroups_,
                  numTotalSplits, numQueuedSplits, barrierRequested_,
                  barrierFinishPromises_, numDriversUnderBarrier_,
                  numBarriers, driverBarrier, gotBarrier, tbar, nextSplitId,
                  handed, accepted, acceptedSequenceId, barrierRequests,
                  barrierThrown, barrierFulfilled, finishCalls, yieldChecks,
                  ignoredTerminate, sinkState, sinkWrittenBytes, sinkError,
                  sinkCalls, planFragment_, numDriversPerSplitGroup_,
                  concurrentSplitGroups_, numRunningSplitGroups_,
                  splitGroupStates_, driverCtxs, partitionedOutputConsumed_,
                  pendingFinished, finishedChecks, lastCall, nextPc, nextI,
                  nextFuture, nextHasBarrier, runnableDrivers,
                  blockedDrivers, futures, nextResult, combined, nextCalls,
                  blocked_, promises_, error_, driverFuture, blocksMade,
                  promisesMade, promisesFulfilled, numRequested,
                  barrierDrivers, allPeersFinishedPromises, peerCalled,
                  peerFuture, peers, peerPromises, groupStarts, queue_,
                  totalBytes_, maxBytes_, numProducers_, producersFinished_,
                  closed_, consumerBlocked_, consumerFuture_,
                  producerUnblockPromises_, ppc, qpc, vector, mayContinue,
                  dequeueResult, enqueued, returned>>

\* Task::taskCompletionFuture
taskCompletionFuture ==
  IF ~isRunningLocked
  THEN /\ makeFinishFutureLocked("completion")
       /\ UNCHANGED <<taskCompletionPromises_, completionRequested>>
  ELSE /\ taskCompletionPromises_' = taskCompletionPromises_ + 1
       /\ completionRequested' = completionRequested + 1
       /\ UNCHANGED <<threadFinishPromises_, pauseFuture, termFuture>>

CallCompletionFuture ==
  /\ cpc = "idle"
  /\ completionRequested < MaxCompletionFutures
  /\ taskCompletionFuture
  /\ UNCHANGED <<state_, exception_, pauseRequested_, terminateRequested_,
                  toYield_, numThreads_, numRunningDrivers_,
                  numFinishedDrivers_, numTotalDrivers_,
                  numDriversUngrouped_, numFinishedOutputDrivers, drivers_,
                  started, isEnqueued, isTerminated, thread, numSuspensions,
                  hasBlockingFuture, closed, queued, dpc, dret, requeue, tst,
                  toff, tprom, cpc, rpc, rounds, rMaxWait, rOutcome, rClose,
                  inDriver, closeByTaskCount, finishedCount, listenerCalls,
                  completionSetValues, resumeCalls, timedOut, mode_,
                  groupSplitsStores, splits, splitPromises,
                  storeNoMoreSplits, noMoreSplits, maxSequenceId,
                  seenSplitGroups_, queuedSplitGroups_, numTotalSplits,
                  numQueuedSplits, barrierRequested_, barrierFinishPromises_,
                  numDriversUnderBarrier_, numBarriers, driverBarrier,
                  gotBarrier, tbar, nextSplitId, handed, accepted,
                  acceptedSequenceId, barrierRequests, barrierThrown,
                  barrierFulfilled, finishCalls, yieldChecks,
                  ignoredTerminate, sinkState, sinkWrittenBytes, sinkError,
                  sinkCalls, planFragment_, numDriversPerSplitGroup_,
                  concurrentSplitGroups_, numRunningSplitGroups_,
                  splitGroupStates_, driverCtxs, partitionedOutputConsumed_,
                  pendingFinished, finishedChecks, lastCall, nextPc, nextI,
                  nextFuture, nextHasBarrier, runnableDrivers,
                  blockedDrivers, futures, nextResult, combined, nextCalls,
                  blocked_, promises_, error_, driverFuture, blocksMade,
                  promisesMade, promisesFulfilled, numRequested,
                  barrierDrivers, allPeersFinishedPromises, peerCalled,
                  peerFuture, peers, peerPromises, groupStarts, queue_,
                  totalBytes_, maxBytes_, numProducers_, producersFinished_,
                  closed_, consumerBlocked_, consumerFuture_,
                  producerUnblockPromises_, ppc, qpc, vector, mayContinue,
                  dequeueResult, enqueued, returned>>

-----------------------------------------------------------------------------
DriverStep(d) ==
  \/ ThreadPick(d)
  \/ DriverRequeue(d)
  \/ DriverCheckStop(d)
  \/ DriverBlock(d)
  \/ DriverFinish(d)
  \/ DriverThrow(d)
  \/ DriverThrowClose(d)
  \/ DriverLeave(d)
  \/ DriverLeaveFin(d)
  \/ FutureReady(d)
  \/ DriverEnterSuspended(d)
  \/ DriverLeaveSuspended(d)

Next ==
  \/ \E maxDrivers \in 1..NumDrivers : StartFactories(maxDrivers)
  \/ StartDrivers
  \/ YieldIfDue
  \/ \E d \in Drivers : DriverStep(d)
  \/ \E a \in Agents : TerminateLocked(a)
  \/ \E a \in Agents : TerminateRest(a)
  \/ \E w \in {0, 1} : ReclaimStart(w)
  \/ ReclaimPaused
  \/ ReclaimTimeout
  \/ ReclaimPool
  \/ ReclaimPoolThrows
  \/ ReclaimResume
  \/ ReclaimReturn
  \/ \E st \in {"Canceled", "Aborted"} : CallTerminate(st)
  \/ CallSetError
  \/ CallCompletionFuture

Spec == Init /\ [][Next]_vars

-----------------------------------------------------------------------------
(* Split feeding: addSplit, addSplitWithSequence, setMaxSplitSequenceId,   *)
(* noMoreSplits and getSplitOrFuture.                                      *)

Max(a, b) == IF a >= b THEN a ELSE b
Min(a, b) == IF a <= b THEN a ELSE b

\* The sequence s without its i-th element.
RemoveAt(s, i) == [j \in 1..(Len(s) - 1) |-> IF j < i THEN s[j] ELSE s[j + 1]]

\* Task::ensureBarrierSupport: TRUE when it does not throw. Every leaf of the
\* plan supports barriers (firstNodeNotSupportingBarrier_ is null).
ensureBarrierSupport == mode_ = "kSerial"

\* Task::addSplitToStoreLocked on store g of leaf n: the split is appended
\* and the last waiter promise, if any, is handed back to be fulfilled.
addSplitToStoreLocked(n, g, s) ==
  /\ splits' = [splits EXCEPT ![n][g] = Append(@, s)]
  /\ splitPromises' = [splitPromises EXCEPT ![n][g] = IF @ = 0 THEN 0 ELSE @ - 1]
  /\ groupSplitsStores' = [groupSplitsStores EXCEPT ![n] = @ \cup {g}]

\* Task::addSplitLocked of a data split: TRUE when its check of
\* barrierRequested_ does not throw.
addSplitLockedPasses == ~barrierRequested_

\* Task::addSplitLocked of data split s for leaf n, with group g
\* (kUngroupedGroupId when the split has no group).
\* ensureSplitGroupsAreBeingProcessedLocked returns at once: the task runs
\* ungrouped execution and numDriversPerSplitGroup_ is 0.
addSplitLocked(n, g, s) ==
  /\ numTotalSplits' = numTotalSplits + 1
  /\ numQueuedSplits' = numQueuedSplits + 1
  /\ IF g # kUngroupedGroupId /\ g \notin seenSplitGroups_
     THEN /\ seenSplitGroups_' = seenSplitGroups_ \cup {g}
          /\ queuedSplitGroups_' = Append(queuedSplitGroups_, g)
     ELSE UNCHANGED <<seenSplitGroups_, queuedSplitGroups_>>
  /\ addSplitToStoreLocked(n, g, s)

\* What addSplit and addSplitWithSequence leave alone when nothing is queued.
nothingQueued ==
  UNCHANGED <<numTotalSplits, numQueuedSplits, seenSplitGroups_,
              queuedSplitGroups_, splits, splitPromises, groupSplitsStores,
              accepted>>

\* Task::addSplit(n, split): the split source offers its next data split.
AddSplit(n, g) ==
  /\ nextSplitId < MaxSplits
  /\ nextSplitId' = nextSplitId + 1
  /\ IF isRunningLocked /\ addSplitLockedPasses
     THEN /\ addSplitLocked(n, g, DataSplit(nextSplitId + 1))
          /\ accepted' = accepted \cup {nextSplitId + 1}
     ELSE nothingQueued
  /\ UNCHANGED <<state_, exception_, pauseRequested_, terminateRequested_,
                  toYield_, numThreads_, numRunningDrivers_,
                  numFinishedDrivers_, numTotalDrivers_,
                  numDriversUngrouped_, numFinishedOutputDrivers, drivers_,
                  threadFinishPromises_, taskCompletionPromises_, started,
                  isEnqueued, isTerminated, thread, numSuspensions,
                  hasBlockingFuture, closed, queued, dpc, dret, requeue, tst,
                  toff, tprom, cpc, rpc, rounds, rMaxWait, rOutcome, rClose,
                  inDriver, closeByTaskCount, finishedCount, listenerCalls,
                  completionSetValues, completionRequested, pauseFuture,
                  resumeCalls, timedOut, termFuture, mode_,
                  storeNoMoreSplits, noMoreSplits, maxSequenceId,
                  barrierRequested_, barrierFinishPromises_,
                  numDriversUnderBarrier_, numBarriers, driverBarrier,
                  gotBarrier, tbar, handed, acceptedSequenceId,
                  barrierRequests, barrierThrown, barrierFulfilled,
                  finishCalls, yieldChecks, ignoredTerminate, sinkState,
                  sinkWrittenBytes, sinkError, sinkCalls, planFragment_,
                  numDriversPerSplitGroup_, concurrentSplitGroups_,
                  numRunningSplitGroups_, splitGroupStates_, driverCtxs,
                  partitionedOutputConsumed_, pendingFinished,
                  finishedChecks, lastCall, nextPc, nextI, nextFuture,
                  nextHasBarrier, runnableDrivers, blockedDrivers, futures,
                  nextResult, combined, nextCalls, blocked_, promises_,
                  error_, driverFuture, blocksMade, promisesMade,
                  promisesFulfilled, numRequested, barrierDrivers,
                  allPeersFinishedPromises, peerCalled, peerFuture, peers,
                  peerPromises, groupStarts, queue_, totalBytes_, maxBytes_,
                  numProducers_, producersFinished_, closed_,
                  consumerBlocked_, consumerFuture_,
                  producerUnblockPromises_, ppc, qpc, vector, mayContinue,
                  dequeueResult, enqueued, returned>>

\* Task::addSplitWithSequence comparing with >= .
addedWithSequenceOrEqual(n, sequenceId) ==
  isRunningLocked /\ sequenceId >= maxSequenceId[n]

\* Task::addSplitWithSequence: the value it returns ('added'), when
\* addSplitLocked does not throw.
addedWithSequence(n, sequenceId) ==
  isRunningLocked /\ sequenceId > maxSequenceId[n]

\* Task::addSplitWithSequence(n, split, sequenceId)
AddSplitWithSequence(n, g, sequenceId) ==
  /\ nextSplitId < MaxSplits
  /\ nextSplitId' = nextSplitId + 1
  /\ IF addedWithSequence(n, sequenceId) /\ addSplitLockedPasses
     THEN /\ addSplitLocked(n, g, DataSplit(nextSplitId + 1))
          /\ accepted' = accepted \cup {nextSplitId + 1}
          /\ acceptedSequenceId' =
               [acceptedSequenceId EXCEPT ![n] = Max(@, sequenceId)]
     ELSE /\ nothingQueued
          /\ UNCHANGED acceptedSequenceId
  /\ UNCHANGED <<state_, exception_, pauseRequested_, terminateRequested_,
                  toYield_, numThreads_, numRunningDrivers_,
                  numFinishedDrivers_, numTotalDrivers_,
                  numDriversUngrouped_, numFinishedOutputDrivers, drivers_,
                  threadFinishPromises_, taskCompletionPromises_, started,
                  isEnqueued, isTerminated, thread, numSuspensions,
                  hasBlockingFuture, closed, queued, dpc, dret, requeue, tst,
                  toff, tprom, cpc, rpc, rounds, rMaxWait, rOutcome, rClose,
                  inDriver, closeByTaskCount, finishedCount, listenerCalls,
                  completionSetValues, completionRequested, pauseFuture,
                  resumeCalls, timedOut, termFuture, mode_,
                  storeNoMoreSplits, noMoreSplits, maxSequenceId,
                  barrierRequested_, barrierFinishPromises_,
                  numDriversUnderBarrier_, numBarriers, driverBarrier,
                  gotBarrier, tbar, handed, barrierRequests, barrierThrown,
                  barrierFulfilled, finishCalls, yieldChecks,
                  ignoredTerminate, sinkState, sinkWrittenBytes, sinkError,
                  sinkCalls, planFragment_, numDriversPerSplitGroup_,
                  concurrentSplitGroups_, numRunningSplitGroups_,
                  splitGroupStates_, driverCtxs, partitionedOutputConsumed_,
                  pendingFinished, finishedChecks, lastCall, nextPc, nextI,
                  nextFuture, nextHasBarrier, runnableDrivers,
                  blockedDrivers, futures, nextResult, combined, nextCalls,
                  blocked_, promises_, error_, driverFuture, blocksMade,
                  promisesMade, promisesFulfilled, numRequested,
                  barrierDrivers, allPeersFinishedPromises, peerCalled,
                  peerFuture, peers, peerPromises, groupStarts, queue_,
                  totalBytes_, maxBytes_, numProducers_, producersFinished_,
                  closed_, consumerBlocked_, consumerFuture_,
                  producerUnblockPromises_, ppc, qpc, vector, mayContinue,
                  dequeueResult, enqueued, returned>>

\* Task::setMaxSplitSequenceId assigning the new id whatever the old one.
setMaxSplitSequenceIdAssign(n, sequenceId) ==
  IF isRunningLocked THEN sequenceId ELSE maxSequenceId[n]

\* Task::setMaxSplitSequenceId: the maxSequenceId it leaves in leaf n.
setMaxSplitSequenceId(n, sequenceId) ==
  IF isRunningLocked THEN Max(maxSequenceId[n], sequenceId)
  ELSE maxSequenceId[n]

SetMaxSplitSequenceId(n, sequenceId) ==
  /\ maxSequenceId' =
       [maxSequenceId EXCEPT ![n] = setMaxSplitSequenceId(n, sequenceId)]
  /\ UNCHANGED <<state_, exception_, pauseRequested_, terminateRequested_,
                  toYield_, numThreads_, numRunningDrivers_,
                  numFinishedDrivers_, numTotalDrivers_,
                  numDriversUngrouped_, numFinishedOutputDrivers, drivers_,
                  threadFinishPromises_, taskCompletionPromises_, started,
                  isEnqueued, isTerminated, thread, numSuspensions,
                  hasBlockingFuture, closed, queued, dpc, dret, requeue, tst,
                  toff, tprom, cpc, rpc, rounds, rMaxWait, rOutcome, rClose,
                  inDriver, closeByTaskCount, finishedCount, listenerCalls,
                  completionSetValues, completionRequested, pauseFuture,
                  resumeCalls, timedOut, termFuture, mode_,
                  groupSplitsStores, splits, splitPromises,
                  storeNoMoreSplits, noMoreSplits, seenSplitGroups_,
                  queuedSplitGroups_, numTotalSplits, numQueuedSplits,
                  barrierRequested_, barrierFinishPromises_,
                  numDriversUnderBarrier_, numBarriers, driverBarrier,
                  gotBarrier, tbar, nextSplitId, handed, accepted,
                  acceptedSequenceId, barrierRequests, barrierThrown,
                  barrierFulfilled, finishCalls, yieldChecks,
                  ignoredTerminate, sinkState, sinkWrittenBytes, sinkError,
                  sinkCalls, planFragment_, numDriversPerSplitGroup_,
                  concurrentSplitGroups_, numRunningSplitGroups_,
                  splitGroupStates_, driverCtxs, partitionedOutputConsumed_,
                  pendingFinished, finishedChecks, lastCall, nextPc, nextI,
                  nextFuture, nextHasBarrier, runnableDrivers,
                  blockedDrivers, futures, nextResult, combined, nextCalls,
                  blocked_, promises_, error_, driverFuture, blocksMade,
                  promisesMade, promisesFulfilled, numRequested,
                  barrierDrivers, allPeersFinishedPromises, peerCalled,
                  peerFuture, peers, peerPromises, groupStarts, queue_,
                  totalBytes_, maxBytes_, numProducers_, producersFinished_,
                  closed_, consumerBlocked_, consumerFuture_,
                  producerUnblockPromises_, ppc, qpc, vector, mayContinue,
                  dequeueResult, enqueued, returned>>

\* Task::noMoreSplits(n) on the ungrouped-execution branch. With one store
\* the store is marked and its waiter promises are fulfilled; with none a
\* store marked 'no more splits' is created; with more than one the
\* VELOX_CHECK_EQ throws after SplitsState::noMoreSplits was set.
\* checkNoMoreSplitGroupsLocked is false for ungrouped execution.
NoMoreSplits(n) ==
  /\ noMoreSplits' = [noMoreSplits EXCEPT ![n] = TRUE]
  /\ IF groupSplitsStores[n] = {}
     THEN /\ groupSplitsStores' =
               [groupSplitsStores EXCEPT ![n] = {kUngroupedGroupId}]
          /\ storeNoMoreSplits' =
               [storeNoMoreSplits EXCEPT ![n][kUngroupedGroupId] = TRUE]
          /\ UNCHANGED splitPromises
     ELSE IF Cardinality(groupSplitsStores[n]) = 1
     THEN LET g == CHOOSE x \in groupSplitsStores[n] : TRUE
          IN /\ storeNoMoreSplits' = [storeNoMoreSplits EXCEPT ![n][g] = TRUE]
             /\ splitPromises' = [splitPromises EXCEPT ![n][g] = 0]
             /\ UNCHANGED groupSplitsStores
     ELSE UNCHANGED <<groupSplitsStores, storeNoMoreSplits, splitPromises>>
  /\ UNCHANGED <<state_, exception_, pauseRequested_, terminateRequested_,
                  toYield_, numThreads_, numRunningDrivers_,
                  numFinishedDrivers_, numTotalDrivers_,
                  numDriversUngrouped_, numFinishedOutputDrivers, drivers_,
                  threadFinishPromises_, taskCompletionPromises_, started,
                  isEnqueued, isTerminated, thread, numSuspensions,
                  hasBlockingFuture, closed, queued, dpc, dret, requeue, tst,
                  toff, tprom, cpc, rpc, rounds, rMaxWait, rOutcome, rClose,
                  inDriver, closeByTaskCount, finishedCount, listenerCalls,
                  completionSetValues, completionRequested, pauseFuture,
                  resumeCalls, timedOut, termFuture, mode_, splits,
                  maxSequenceId, seenSplitGroups_, queuedSplitGroups_,
                  numTotalSplits, numQueuedSplits, barrierRequested_,
                  barrierFinishPromises_, numDriversUnderBarrier_,
                  numBarriers, driverBarrier, gotBarrier, tbar, nextSplitId,
                  handed, accepted, acceptedSequenceId, barrierRequests,
                  barrierThrown, barrierFulfilled, finishCalls, yieldChecks,
                  ignoredTerminate, sinkState, sinkWrittenBytes, sinkError,
                  sinkCalls, planFragment_, numDriversPerSplitGroup_,
                  concurrentSplitGroups_, numRunningSplitGroups_,
                  splitGroupStates_, driverCtxs, partitionedOutputConsumed_,
                  pendingFinished, finishedChecks, lastCall, nextPc, nextI,
                  nextFuture, nextHasBarrier, runnableDrivers,
                  blockedDrivers, futures, nextResult, combined, nextCalls,
                  blocked_, promises_, error_, driverFuture, blocksMade,
                  promisesMade, promisesFulfilled, numRequested,
                  barrierDrivers, allPeersFinishedPromises, peerCalled,
                  peerFuture, peers, peerPromises, groupStarts, queue_,
                  totalBytes_, maxBytes_, numProducers_, producersFinished_,
                  closed_, consumerBlocked_, consumerFuture_,
                  producerUnblockPromises_, ppc, qpc, vector, mayContinue,
                  dequeueResult, enqueued, returned>>

\* Task::getSplitLocked on the splits 'q' of a store with maxPreloadSplits k:
\* the positions the preload loop looks at, ...
preloadWindow(q, k) == 1..Min(Len(q), k)

\* ... the positions it calls preload on, ...
preloaded(q, k) ==
  {i \in preloadWindow(q, k) : ~q[i].barrier /\ q[i].dataSource = "none"}

\* ... the first position whose dataSource has a value, with a barrier
\* split counting as ready, ...
readySplitIndexAnySplit(q, k) ==
  LET ready == {i \in preloadWindow(q, k) :
                  q[i].barrier \/ q[i].dataSource = "ready"}
  IN IF ready = {} THEN 1
     ELSE CHOOSE i \in ready : \A j \in ready : i <= j

\* ... the first preloaded split whose dataSource has a value, falling back
\* to the end of the queue, ...
readySplitIndexElseLast(q, k) ==
  LET ready == {i \in preloadWindow(q, k) :
                  ~q[i].barrier /\ q[i].dataSource = "ready"}
  IN IF ready = {} THEN Len(q)
     ELSE CHOOSE i \in ready : \A j \in ready : i <= j

\* ... readySplitIndex (1-based): the first preloaded split whose dataSource
\* has a value, else the head of the queue, ...
readySplitIndex(q, k) ==
  LET ready == {i \in preloadWindow(q, k) :
                  ~q[i].barrier /\ q[i].dataSource = "ready"}
  IN IF ready = {} THEN 1
     ELSE CHOOSE i \in ready : \A j \in ready : i <= j

\* ... the splits it leaves in the store if it did not erase the split it
\* returns, ...
splitsAfterGetKeep(q, k) ==
  [i \in 1..Len(q) |->
     IF i \in preloaded(q, k) THEN [q[i] EXCEPT !.dataSource = "loading"]
     ELSE q[i]]

\* ... and the splits it leaves in the store.
splitsAfterGet(q, k) ==
  RemoveAt([i \in 1..Len(q) |->
              IF i \in preloaded(q, k)
              THEN [q[i] EXCEPT !.dataSource = "loading"]
              ELSE q[i]],
           readySplitIndex(q, k))

\* The number of waiter promises held in the split stores.
numSplitPromises ==
  SumOver([p \in Leaves \X StoreIds |-> splitPromises[p[1]][p[2]]],
          Leaves \X StoreIds)

\* Task::getSplitOrFuture: the BlockingReason it returns for store g of
\* leaf n.
getSplitOrFutureReason(n, g) ==
  IF splits[n][g] = <<>> /\ ~storeNoMoreSplits[n][g]
  THEN "kWaitForSplit" ELSE "kNotBlocked"

\* Task::getSplitOrFuture(g, n, ..., k, preload), called by the source
\* operator of Driver d, whose leaf is d, while its thread runs the Driver.
GetSplitOrFuture(d, g, k) ==
  /\ dpc[d] = "run"
  /\ groupSplitsStores' = [groupSplitsStores EXCEPT ![d] = @ \cup {g}]
  /\ IF splits[d][g] = <<>>
     THEN /\ getSplitOrFutureReason(d, g) = "kWaitForSplit"
               => numSplitPromises < MaxWaiters
          /\ splitPromises' =
               [splitPromises EXCEPT ![d][g] =
                  IF getSplitOrFutureReason(d, g) = "kWaitForSplit"
                  THEN @ + 1 ELSE @]
          /\ UNCHANGED <<splits, numQueuedSplits, handed, gotBarrier>>
     ELSE LET q == splits[d][g]
              split == q[readySplitIndex(q, k)]
          IN /\ splits' = [splits EXCEPT ![d][g] = splitsAfterGet(q, k)]
             /\ numQueuedSplits' = numQueuedSplits - 1
             /\ handed' = IF split.barrier THEN handed
                          ELSE [handed EXCEPT ![split.id] = @ + 1]
             /\ gotBarrier' = [gotBarrier EXCEPT ![d] = @ \/ split.barrier]
             /\ UNCHANGED splitPromises
  /\ UNCHANGED <<state_, exception_, pauseRequested_, terminateRequested_,
                  toYield_, numThreads_, numRunningDrivers_,
                  numFinishedDrivers_, numTotalDrivers_,
                  numDriversUngrouped_, numFinishedOutputDrivers, drivers_,
                  threadFinishPromises_, taskCompletionPromises_, started,
                  isEnqueued, isTerminated, thread, numSuspensions,
                  hasBlockingFuture, closed, queued, dpc, dret, requeue, tst,
                  toff, tprom, cpc, rpc, rounds, rMaxWait, rOutcome, rClose,
                  inDriver, closeByTaskCount, finishedCount, listenerCalls,
                  completionSetValues, completionRequested, pauseFuture,
                  resumeCalls, timedOut, termFuture, mode_,
                  storeNoMoreSplits, noMoreSplits, maxSequenceId,
                  seenSplitGroups_, queuedSplitGroups_, numTotalSplits,
                  barrierRequested_, barrierFinishPromises_,
                  numDriversUnderBarrier_, numBarriers, driverBarrier, tbar,
                  nextSplitId, accepted, acceptedSequenceId, barrierRequests,
                  barrierThrown, barrierFulfilled, finishCalls, yieldChecks,
                  ignoredTerminate, sinkState, sinkWrittenBytes, sinkError,
                  sinkCalls, planFragment_, numDriversPerSplitGroup_,
                  concurrentSplitGroups_, numRunningSplitGroups_,
                  splitGroupStates_, driverCtxs, partitionedOutputConsumed_,
                  pendingFinished, finishedChecks, lastCall, nextPc, nextI,
                  nextFuture, nextHasBarrier, runnableDrivers,
                  blockedDrivers, futures, nextResult, combined, nextCalls,
                  blocked_, promises_, error_, driverFuture, blocksMade,
                  promisesMade, promisesFulfilled, numRequested,
                  barrierDrivers, allPeersFinishedPromises, peerCalled,
                  peerFuture, peers, peerPromises, groupStarts, queue_,
                  totalBytes_, maxBytes_, numProducers_, producersFinished_,
                  closed_, consumerBlocked_, consumerFuture_,
                  producerUnblockPromises_, ppc, qpc, vector, mayContinue,
                  dequeueResult, enqueued, returned>>

\* The asynchronous preload of a queued split completes: its dataSource has
\* a value.
PreloadDone(n, g, i) ==
  /\ i \in 1..Len(splits[n][g])
  /\ splits[n][g][i].dataSource = "loading"
  /\ splits' = [splits EXCEPT ![n][g][i].dataSource = "ready"]
  /\ UNCHANGED <<state_, exception_, pauseRequested_, terminateRequested_,
                  toYield_, numThreads_, numRunningDrivers_,
                  numFinishedDrivers_, numTotalDrivers_,
                  numDriversUngrouped_, numFinishedOutputDrivers, drivers_,
                  threadFinishPromises_, taskCompletionPromises_, started,
                  isEnqueued, isTerminated, thread, numSuspensions,
                  hasBlockingFuture, closed, queued, dpc, dret, requeue, tst,
                  toff, tprom, cpc, rpc, rounds, rMaxWait, rOutcome, rClose,
                  inDriver, closeByTaskCount, finishedCount, listenerCalls,
                  completionSetValues, completionRequested, pauseFuture,
                  resumeCalls, timedOut, termFuture, mode_,
                  groupSplitsStores, splitPromises, storeNoMoreSplits,
                  noMoreSplits, maxSequenceId, seenSplitGroups_,
                  queuedSplitGroups_, numTotalSplits, numQueuedSplits,
                  barrierRequested_, barrierFinishPromises_,
                  numDriversUnderBarrier_, numBarriers, driverBarrier,
                  gotBarrier, tbar, nextSplitId, handed, accepted,
                  acceptedSequenceId, barrierRequests, barrierThrown,
                  barrierFulfilled, finishCalls, yieldChecks,
                  ignoredTerminate, sinkState, sinkWrittenBytes, sinkError,
                  sinkCalls, planFragment_, numDriversPerSplitGroup_,
                  concurrentSplitGroups_, numRunningSplitGroups_,
                  splitGroupStates_, driverCtxs, partitionedOutputConsumed_,
                  pendingFinished, finishedChecks, lastCall, nextPc, nextI,
                  nextFuture, nextHasBarrier, runnableDrivers,
                  blockedDrivers, futures, nextResult, combined, nextCalls,
                  blocked_, promises_, error_, driverFuture, blocksMade,
                  promisesMade, promisesFulfilled, numRequested,
                  barrierDrivers, allPeersFinishedPromises, peerCalled,
                  peerFuture, peers, peerPromises, groupStarts, queue_,
                  totalBytes_, maxBytes_, numProducers_, producersFinished_,
                  closed_, consumerBlocked_, consumerFuture_,
                  producerUnblockPromises_, ppc, qpc, vector, mayContinue,
                  dequeueResult, enqueued, returned>>

-----------------------------------------------------------------------------
(* Serial execution (Task::next) and the barrier protocol.                 *)

\* Task::underBarrier
underBarrier == barrierRequested_

\* Task::startDriverBarriersLocked: TRUE when its checks pass; drivers_ is
\* empty until the Drivers are created.
startDriverBarriersPasses ==
  /\ numDriversUnderBarrier_ = 0
  /\ started = "yes" => \A d \in TaskDrivers : drivers_[d]

\* The Drivers its loop reaches before a check throws.
startDriverBarriersReached ==
  IF numDriversUnderBarrier_ # 0 \/ started # "yes" THEN {}
  ELSE {d \in TaskDrivers : \A e \in 1..d : drivers_[e]}

\* Task::startDriverBarriersLocked: Driver::startBarrier on the Drivers of
\* 'reached', each counted in numDriversUnderBarrier_.
startDriverBarriersLocked(reached) ==
  /\ driverBarrier' = [d \in Drivers |-> driverBarrier[d] \/ d \in reached]
  /\ numDriversUnderBarrier_' = numDriversUnderBarrier_ + Cardinality(reached)
  /\ finishCalls' = [d \in Drivers |-> 0]

\* Task::next, first call: the Drivers of the serial task are created; they
\* start the barrier when one is requested.
NextCreateDrivers ==
  /\ mode_ = "kSerial"
  /\ state_ = "Running"
  /\ \A n \in Leaves : noMoreSplits[n] \/ underBarrier
  /\ started = "no"
  /\ started' = "yes"
  /\ numDriversUngrouped_' = numDriversUngrouped_ + NumDrivers
  /\ numTotalDrivers_' = numTotalDrivers_ + NumDrivers
  /\ drivers_' = [d \in Drivers |-> d <= NumDrivers]
  /\ IF underBarrier
     THEN startDriverBarriersLocked(1..NumDrivers)
     ELSE UNCHANGED <<driverBarrier, numDriversUnderBarrier_, finishCalls>>
  /\ UNCHANGED <<state_, exception_, pauseRequested_, terminateRequested_,
                  toYield_, numThreads_, numRunningDrivers_,
                  numFinishedDrivers_, numFinishedOutputDrivers,
                  threadFinishPromises_, taskCompletionPromises_, isEnqueued,
                  isTerminated, thread, numSuspensions, hasBlockingFuture,
                  closed, queued, dpc, dret, requeue, tst, toff, tprom, cpc,
                  rpc, rounds, rMaxWait, rOutcome, rClose, inDriver,
                  closeByTaskCount, finishedCount, listenerCalls,
                  completionSetValues, completionRequested, pauseFuture,
                  resumeCalls, timedOut, termFuture, mode_,
                  groupSplitsStores, splits, splitPromises,
                  storeNoMoreSplits, noMoreSplits, maxSequenceId,
                  seenSplitGroups_, queuedSplitGroups_, numTotalSplits,
                  numQueuedSplits, barrierRequested_, barrierFinishPromises_,
                  numBarriers, gotBarrier, tbar, nextSplitId, handed,
                  accepted, acceptedSequenceId, barrierRequests,
                  barrierThrown, barrierFulfilled, yieldChecks,
                  ignoredTerminate, sinkState, sinkWrittenBytes, sinkError,
                  sinkCalls, planFragment_, numDriversPerSplitGroup_,
                  concurrentSplitGroups_, numRunningSplitGroups_,
                  splitGroupStates_, driverCtxs, partitionedOutputConsumed_,
                  pendingFinished, finishedChecks, lastCall, nextPc, nextI,
                  nextFuture, nextHasBarrier, runnableDrivers,
                  blockedDrivers, futures, nextResult, combined, nextCalls,
                  blocked_, promises_, error_, driverFuture, blocksMade,
                  promisesMade, promisesFulfilled, numRequested,
                  barrierDrivers, allPeersFinishedPromises, peerCalled,
                  peerFuture, peers, peerPromises, groupStarts, queue_,
                  totalBytes_, maxBytes_, numProducers_, producersFinished_,
                  closed_, consumerBlocked_, consumerFuture_,
                  producerUnblockPromises_, ppc, qpc, vector, mayContinue,
                  dequeueResult, enqueued, returned>>

\* Task::next runs Driver d, which is neither blocked nor finished:
\* Driver::next marks it enqueued and calls runInternal.
NextRunDriver(d) ==
  /\ mode_ = "kSerial"
  /\ state_ = "Running"
  /\ \A n \in Leaves : noMoreSplits[n] \/ underBarrier
  /\ started = "yes"
  /\ drivers_[d] /\ ~isEnqueued[d] /\ ~thread[d] /\ ~hasBlockingFuture[d]
  /\ enqueue(d)
  /\ UNCHANGED <<state_, exception_, pauseRequested_, terminateRequested_,
                  toYield_, numThreads_, numRunningDrivers_,
                  numFinishedDrivers_, numTotalDrivers_,
                  numDriversUngrouped_, numFinishedOutputDrivers, drivers_,
                  threadFinishPromises_, taskCompletionPromises_, started,
                  isTerminated, thread, numSuspensions, hasBlockingFuture,
                  closed, dpc, dret, requeue, tst, toff, tprom, cpc, rpc,
                  rounds, rMaxWait, rOutcome, rClose, inDriver,
                  closeByTaskCount, finishedCount, listenerCalls,
                  completionSetValues, completionRequested, pauseFuture,
                  resumeCalls, timedOut, termFuture, mode_,
                  groupSplitsStores, splits, splitPromises,
                  storeNoMoreSplits, noMoreSplits, maxSequenceId,
                  seenSplitGroups_, queuedSplitGroups_, numTotalSplits,
                  numQueuedSplits, barrierRequested_, barrierFinishPromises_,
                  numDriversUnderBarrier_, numBarriers, driverBarrier,
                  gotBarrier, tbar, nextSplitId, handed, accepted,
                  acceptedSequenceId, barrierRequests, barrierThrown,
                  barrierFulfilled, finishCalls, yieldChecks,
                  ignoredTerminate, sinkState, sinkWrittenBytes, sinkError,
                  sinkCalls, planFragment_, numDriversPerSplitGroup_,
                  concurrentSplitGroups_, numRunningSplitGroups_,
                  splitGroupStates_, driverCtxs, partitionedOutputConsumed_,
                  pendingFinished, finishedChecks, lastCall, nextPc, nextI,
                  nextFuture, nextHasBarrier, runnableDrivers,
                  blockedDrivers, futures, nextResult, combined, nextCalls,
                  blocked_, promises_, error_, driverFuture, blocksMade,
                  promisesMade, promisesFulfilled, numRequested,
                  barrierDrivers, allPeersFinishedPromises, peerCalled,
                  peerFuture, peers, peerPromises, groupStarts, queue_,
                  totalBytes_, maxBytes_, numProducers_, producersFinished_,
                  closed_, consumerBlocked_, consumerFuture_,
                  producerUnblockPromises_, ppc, qpc, vector, mayContinue,
                  dequeueResult, enqueued, returned>>

\* Task::startBarrier: TRUE when its check of the leaves does not throw.
\* Every leaf is a table scan.
startBarrierLeavesUnchecked == TRUE

startBarrierLeavesPass == \A n \in Leaves : ~noMoreSplits[n]

\* Task::startBarrier: TRUE when the request joins the barrier that is
\* outstanding instead of starting a round (barrierRequested_.exchange).
startBarrierAlwaysStarts == FALSE

startBarrierJoins == barrierRequested_

\* Task::startBarrier fulfilling the promise at once whatever the state.
startBarrierFulfilsAtOnceAlways == TRUE

\* Task::startBarrier: TRUE when the promise is fulfilled as the call returns,
\* no barrier being started.
startBarrierFulfilsAtOnce == ~isRunningLocked

\* Task::requestBarrier. On a task that is not running the future is
\* fulfilled at once. A round queues a barrier split on every leaf,
\* fulfilling one waiter promise of each store, and starts the barrier on
\* the Drivers; when a check of startDriverBarriersLocked throws no future
\* is returned.
RequestBarrier ==
  /\ barrierRequests + barrierThrown < MaxBarriers
  /\ IF ~ensureBarrierSupport
     THEN /\ barrierThrown' = barrierThrown + 1
          /\ UNCHANGED <<barrierRequests, barrierFulfilled,
                         barrierFinishPromises_, barrierRequested_,
                         numBarriers, splits, splitPromises,
                         groupSplitsStores, driverBarrier,
                         numDriversUnderBarrier_, finishCalls>>
     ELSE IF startBarrierFulfilsAtOnce
     THEN /\ barrierRequests' = barrierRequests + 1
          /\ barrierFulfilled' = barrierFulfilled + 1
          /\ UNCHANGED <<barrierThrown, barrierFinishPromises_, barrierRequested_,
                         numBarriers, splits, splitPromises,
                         groupSplitsStores, driverBarrier,
                         numDriversUnderBarrier_, finishCalls>>
     ELSE IF ~startBarrierLeavesPass
     THEN /\ barrierThrown' = barrierThrown + 1
          /\ UNCHANGED <<barrierRequests, barrierFulfilled,
                         barrierFinishPromises_, barrierRequested_,
                         numBarriers, splits, splitPromises,
                         groupSplitsStores, driverBarrier,
                         numDriversUnderBarrier_, finishCalls>>
     ELSE /\ barrierFinishPromises_' = barrierFinishPromises_ + 1
          /\ barrierRequested_' = TRUE
          /\ UNCHANGED barrierFulfilled
          /\ IF startBarrierJoins
             THEN /\ barrierRequests' = barrierRequests + 1
                  /\ UNCHANGED <<barrierThrown, numBarriers, splits, splitPromises,
                                 groupSplitsStores, driverBarrier,
                                 numDriversUnderBarrier_, finishCalls>>
             ELSE /\ numBarriers' = numBarriers + 1
                  /\ splits' =
                       [n \in Leaves |->
                          [splits[n] EXCEPT ![kUngroupedGroupId] =
                             Append(@, BarrierSplit)]]
                  /\ splitPromises' =
                       [n \in Leaves |->
                          [splitPromises[n] EXCEPT ![kUngroupedGroupId] =
                             IF @ = 0 THEN 0 ELSE @ - 1]]
                  /\ groupSplitsStores' =
                       [n \in Leaves |->
                          groupSplitsStores[n] \cup {kUngroupedGroupId}]
                  /\ startDriverBarriersLocked(startDriverBarriersReached)
                  /\ IF startDriverBarriersPasses
                     THEN /\ barrierRequests' = barrierRequests + 1
                          /\ UNCHANGED barrierThrown
                     ELSE /\ barrierThrown' = barrierThrown + 1
                          /\ UNCHANGED barrierRequests
  /\ UNCHANGED <<state_, exception_, pauseRequested_, terminateRequested_,
                  toYield_, numThreads_, numRunningDrivers_,
                  numFinishedDrivers_, numTotalDrivers_,
                  numDriversUngrouped_, numFinishedOutputDrivers, drivers_,
                  threadFinishPromises_, taskCompletionPromises_, started,
                  isEnqueued, isTerminated, thread, numSuspensions,
                  hasBlockingFuture, closed, queued, dpc, dret, requeue, tst,
                  toff, tprom, cpc, rpc, rounds, rMaxWait, rOutcome, rClose,
                  inDriver, closeByTaskCount, finishedCount, listenerCalls,
                  completionSetValues, completionRequested, pauseFuture,
                  resumeCalls, timedOut, termFuture, mode_,
                  storeNoMoreSplits, noMoreSplits, maxSequenceId,
                  seenSplitGroups_, queuedSplitGroups_, numTotalSplits,
                  numQueuedSplits, gotBarrier, tbar, nextSplitId, handed,
                  accepted, acceptedSequenceId, yieldChecks,
                  ignoredTerminate, sinkState, sinkWrittenBytes, sinkError,
                  sinkCalls, planFragment_, numDriversPerSplitGroup_,
                  concurrentSplitGroups_, numRunningSplitGroups_,
                  splitGroupStates_, driverCtxs, partitionedOutputConsumed_,
                  pendingFinished, finishedChecks, lastCall, nextPc, nextI,
                  nextFuture, nextHasBarrier, runnableDrivers,
                  blockedDrivers, futures, nextResult, combined, nextCalls,
                  blocked_, promises_, error_, driverFuture, blocksMade,
                  promisesMade, promisesFulfilled, numRequested,
                  barrierDrivers, allPeersFinishedPromises, peerCalled,
                  peerFuture, peers, peerPromises, groupStarts, queue_,
                  totalBytes_, maxBytes_, numProducers_, producersFinished_,
                  closed_, consumerBlocked_, consumerFuture_,
                  producerUnblockPromises_, ppc, qpc, vector, mayContinue,
                  dequeueResult, enqueued, returned>>

\* Driver d, running on its thread under a barrier, has consumed the barrier
\* split of its leaf and drained its operators.
barrierDrained(d) ==
  /\ dpc[d] = "run"
  /\ driverBarrier[d] /\ gotBarrier[d]

\* Task::finishDriverBarrier: TRUE when the barrier ends with this call.
finishDriverBarrierEnds == numDriversUnderBarrier_ - 1 = 0

\* Driver d, which has drained the barrier split of its leaf, calls
\* Task::finishDriverBarrier; endBarrierLocked fulfils the barrier promises
\* when the last Driver does.
FinishDriverBarrier(d) ==
  /\ barrierDrained(d)
  /\ driverBarrier' = [driverBarrier EXCEPT ![d] = FALSE]
  /\ gotBarrier' = [gotBarrier EXCEPT ![d] = FALSE]
  /\ IF ~underBarrier \/ numDriversUnderBarrier_ <= 0
     THEN UNCHANGED <<numDriversUnderBarrier_, barrierFinishPromises_,
                      barrierRequested_, barrierFulfilled, finishCalls>>
     ELSE /\ numDriversUnderBarrier_' = numDriversUnderBarrier_ - 1
          /\ finishCalls' = [finishCalls EXCEPT ![d] = @ + 1]
          /\ IF finishDriverBarrierEnds
             THEN /\ barrierFulfilled' =
                       barrierFulfilled + barrierFinishPromises_
                  /\ barrierFinishPromises_' = 0
                  /\ barrierRequested_' = FALSE
             ELSE UNCHANGED <<barrierFinishPromises_, barrierRequested_,
                              barrierFulfilled>>
  /\ UNCHANGED <<state_, exception_, pauseRequested_, terminateRequested_,
                  toYield_, numThreads_, numRunningDrivers_,
                  numFinishedDrivers_, numTotalDrivers_,
                  numDriversUngrouped_, numFinishedOutputDrivers, drivers_,
                  threadFinishPromises_, taskCompletionPromises_, started,
                  isEnqueued, isTerminated, thread, numSuspensions,
                  hasBlockingFuture, closed, queued, dpc, dret, requeue, tst,
                  toff, tprom, cpc, rpc, rounds, rMaxWait, rOutcome, rClose,
                  inDriver, closeByTaskCount, finishedCount, listenerCalls,
                  completionSetValues, completionRequested, pauseFuture,
                  resumeCalls, timedOut, termFuture, mode_,
                  groupSplitsStores, splits, splitPromises,
                  storeNoMoreSplits, noMoreSplits, maxSequenceId,
                  seenSplitGroups_, queuedSplitGroups_, numTotalSplits,
                  numQueuedSplits, numBarriers, tbar, nextSplitId, handed,
                  accepted, acceptedSequenceId, barrierRequests,
                  barrierThrown, yieldChecks, ignoredTerminate, sinkState,
                  sinkWrittenBytes, sinkError, sinkCalls, planFragment_,
                  numDriversPerSplitGroup_, concurrentSplitGroups_,
                  numRunningSplitGroups_, splitGroupStates_, driverCtxs,
                  partitionedOutputConsumed_, pendingFinished,
                  finishedChecks, lastCall, nextPc, nextI, nextFuture,
                  nextHasBarrier, runnableDrivers, blockedDrivers, futures,
                  nextResult, combined, nextCalls, blocked_, promises_,
                  error_, driverFuture, blocksMade, promisesMade,
                  promisesFulfilled, numRequested, barrierDrivers,
                  allPeersFinishedPromises, peerCalled, peerFuture, peers,
                  peerPromises, groupStarts, queue_, totalBytes_, maxBytes_,
                  numProducers_, producersFinished_, closed_,
                  consumerBlocked_, consumerFuture_,
                  producerUnblockPromises_, ppc, qpc, vector, mayContinue,
                  dequeueResult, enqueued, returned>>

\* The steps of a task fed with splits and run under barriers.
SplitStep ==
  \/ \E n \in Leaves, g \in StoreIds : AddSplit(n, g)
  \/ \E n \in Leaves, g \in StoreIds, s \in 0..MaxSequenceId :
       AddSplitWithSequence(n, g, s)
  \/ \E n \in Leaves, s \in 0..MaxSequenceId : SetMaxSplitSequenceId(n, s)
  \/ \E n \in Leaves : NoMoreSplits(n)
  \/ \E d \in Leaves, g \in StoreIds, k \in 0..MaxPreload :
       GetSplitOrFuture(d, g, k)
  \/ \E n \in Leaves, g \in StoreIds, i \in 1..(MaxSplits + MaxBarriers) :
       PreloadDone(n, g, i)
  \/ RequestBarrier
  \/ \E d \in Drivers : FinishDriverBarrier(d)
  \/ NextCreateDrivers
  \/ \E d \in Drivers : NextRunDriver(d)

\* The Driver thread in a task fed with splits.
SplitDriverStep(d) ==
  \/ ThreadPick(d)
  \/ DriverCheckStop(d)
  \/ DriverBlock(d)
  \/ DriverLeave(d)
  \/ DriverLeaveFin(d)
  \/ FutureReady(d)

SplitNext ==
  \/ SplitStep
  \/ \E d \in Drivers : SplitDriverStep(d)
  \/ \E a \in Agents : TerminateLocked(a)
  \/ \E a \in Agents : TerminateRest(a)
  \/ CallTerminate("Canceled")
  \/ CallSetError

SplitSpec == SplitInit /\ [][SplitNext]_vars

-----------------------------------------------------------------------------
(* The threads of several Drivers of one running task, with yieldIfDue.    *)

\* What the thread of Driver d does next while nothing pauses or terminates
\* the task.
YieldDriverStep(d) ==
  \/ ThreadPick(d)
  \/ DriverRequeue(d)
  \/ DriverCheckStop(d)
  \/ DriverLeave(d)
  \/ DriverEnterSuspended(d)
  \/ DriverLeaveSuspended(d)

YieldNext ==
  \/ \E maxDrivers \in 1..MaxDrivers : StartFactories(maxDrivers)
  \/ StartDrivers
  \/ YieldIfDue
  \/ \E d \in Drivers : YieldDriverStep(d)

YieldSpec == Init /\ [][YieldNext]_vars

-----------------------------------------------------------------------------
(* The life cycle of a HiveDataSink: appendData, finish, close, abort.     *)

\* HiveDataSink::checkStateTransition accepting every transition out of
\* CLOSED as well.
checkStateTransitionFromClosed(oldState, newState) ==
  \/ oldState = "RUNNING" /\ newState \in {"ABORTED", "FINISHING"}
  \/ oldState = "FINISHING" /\ newState \in {"ABORTED", "CLOSED", "FINISHING"}
  \/ oldState = "CLOSED"

\* HiveDataSink::checkStateTransition: TRUE when it does not throw.
checkStateTransition(oldState, newState) ==
  \/ oldState = "RUNNING" /\ newState \in {"ABORTED", "FINISHING"}
  \/ oldState = "FINISHING" /\ newState \in {"ABORTED", "CLOSED", "FINISHING"}

\* The error checkStateTransition throws.
unexpectedStateTransition(oldState, newState) ==
  <<"Unexpected state transition from", oldState, "to", newState>>

\* HiveDataSink::setState
setState(newState) ==
  IF checkStateTransition(sinkState, newState)
  THEN /\ sinkState' = newState
       /\ sinkError' = <<"none">>
  ELSE /\ sinkState' = sinkState
       /\ sinkError' = unexpectedStateTransition(sinkState, newState)

\* HiveDataSink::stats: numWrittenBytes; the stats of an aborted sink are
\* empty.
numWrittenBytes == IF sinkState = "ABORTED" THEN 0 ELSE sinkWrittenBytes

\* HiveDataSink::appendData
SinkAppendData ==
  /\ sinkCalls < MaxSinkCalls
  /\ sinkCalls' = sinkCalls + 1
  /\ IF sinkState = "RUNNING"
     THEN /\ sinkWrittenBytes < MaxAppends
          /\ sinkWrittenBytes' = sinkWrittenBytes + 1
          /\ sinkError' = <<"none">>
     ELSE /\ sinkError' = <<"Hive data sink is not running">>
          /\ UNCHANGED sinkWrittenBytes
  /\ UNCHANGED <<state_, exception_, pauseRequested_, terminateRequested_,
                  toYield_, numThreads_, numRunningDrivers_,
                  numFinishedDrivers_, numTotalDrivers_,
                  numDriversUngrouped_, numFinishedOutputDrivers, drivers_,
                  threadFinishPromises_, taskCompletionPromises_, started,
                  isEnqueued, isTerminated, thread, numSuspensions,
                  hasBlockingFuture, closed, queued, dpc, dret, requeue, tst,
                  toff, tprom, cpc, rpc, rounds, rMaxWait, rOutcome, rClose,
                  inDriver, closeByTaskCount, finishedCount, listenerCalls,
                  completionSetValues, completionRequested, pauseFuture,
                  resumeCalls, timedOut, termFuture, mode_,
                  groupSplitsStores, splits, splitPromises,
                  storeNoMoreSplits, noMoreSplits, maxSequenceId,
                  seenSplitGroups_, queuedSplitGroups_, numTotalSplits,
                  numQueuedSplits, barrierRequested_, barrierFinishPromises_,
                  numDriversUnderBarrier_, numBarriers, driverBarrier,
                  gotBarrier, tbar, nextSplitId, handed, accepted,
                  acceptedSequenceId, barrierRequests, barrierThrown,
                  barrierFulfilled, finishCalls, yieldChecks,
                  ignoredTerminate, sinkState, planFragment_,
                  numDriversPerSplitGroup_, concurrentSplitGroups_,
                  numRunningSplitGroups_, splitGroupStates_, driverCtxs,
                  partitionedOutputConsumed_, pendingFinished,
                  finishedChecks, lastCall, nextPc, nextI, nextFuture,
                  nextHasBarrier, runnableDrivers, blockedDrivers, futures,
                  nextResult, combined, nextCalls, blocked_, promises_,
                  error_, driverFuture, blocksMade, promisesMade,
                  promisesFulfilled, numRequested, barrierDrivers,
                  allPeersFinishedPromises, peerCalled, peerFuture, peers,
                  peerPromises, groupStarts, queue_, totalBytes_, maxBytes_,
                  numProducers_, producersFinished_, closed_,
                  consumerBlocked_, consumerFuture_,
                  producerUnblockPromises_, ppc, qpc, vector, mayContinue,
                  dequeueResult, enqueued, returned>>

\* HiveDataSink::finish
SinkFinish ==
  /\ sinkCalls < MaxSinkCalls
  /\ sinkCalls' = sinkCalls + 1
  /\ setState("FINISHING")
  /\ UNCHANGED <<state_, exception_, pauseRequested_, terminateRequested_,
                  toYield_, numThreads_, numRunningDrivers_,
                  numFinishedDrivers_, numTotalDrivers_,
                  numDriversUngrouped_, numFinishedOutputDrivers, drivers_,
                  threadFinishPromises_, taskCompletionPromises_, started,
                  isEnqueued, isTerminated, thread, numSuspensions,
                  hasBlockingFuture, closed, queued, dpc, dret, requeue, tst,
                  toff, tprom, cpc, rpc, rounds, rMaxWait, rOutcome, rClose,
                  inDriver, closeByTaskCount, finishedCount, listenerCalls,
                  completionSetValues, completionRequested, pauseFuture,
                  resumeCalls, timedOut, termFuture, mode_,
                  groupSplitsStores, splits, splitPromises,
                  storeNoMoreSplits, noMoreSplits, maxSequenceId,
                  seenSplitGroups_, queuedSplitGroups_, numTotalSplits,
                  numQueuedSplits, barrierRequested_, barrierFinishPromises_,
                  numDriversUnderBarrier_, numBarriers, driverBarrier,
                  gotBarrier, tbar, nextSplitId, handed, accepted,
                  acceptedSequenceId, barrierRequests, barrierThrown,
                  barrierFulfilled, finishCalls, yieldChecks,
                  ignoredTerminate, sinkWrittenBytes, planFragment_,
                  numDriversPerSplitGroup_, concurrentSplitGroups_,
                  numRunningSplitGroups_, splitGroupStates_, driverCtxs,
                  partitionedOutputConsumed_, pendingFinished,
                  finishedChecks, lastCall, nextPc, nextI, nextFuture,
                  nextHasBarrier, runnableDrivers, blockedDrivers, futures,
                  nextResult, combined, nextCalls, blocked_, promises_,
                  error_, driverFuture, blocksMade, promisesMade,
                  promisesFulfilled, numRequested, barrierDrivers,
                  allPeersFinishedPromises, peerCalled, peerFuture, peers,
                  peerPromises, groupStarts, queue_, totalBytes_, maxBytes_,
                  numProducers_, producersFinished_, closed_,
                  consumerBlocked_, consumerFuture_,
                  producerUnblockPromises_, ppc, qpc, vector, mayContinue,
                  dequeueResult, enqueued, returned>>

\* HiveDataSink::close
SinkClose ==
  /\ sinkCalls < MaxSinkCalls
  /\ sinkCalls' = sinkCalls + 1
  /\ setState("CLOSED")
  /\ UNCHANGED <<state_, exception_, pauseRequested_, terminateRequested_,
                  toYield_, numThreads_, numRunningDrivers_,
                  numFinishedDrivers_, numTotalDrivers_,
                  numDriversUngrouped_, numFinishedOutputDrivers, drivers_,
                  threadFinishPromises_, taskCompletionPromises_, started,
                  isEnqueued, isTerminated, thread, numSuspensions,
                  hasBlockingFuture, closed, queued, dpc, dret, requeue, tst,
                  toff, tprom, cpc, rpc, rounds, rMaxWait, rOutcome, rClose,
                  inDriver, closeByTaskCount, finishedCount, listenerCalls,
                  completionSetValues, completionRequested, pauseFuture,
                  resumeCalls, timedOut, termFuture, mode_,
                  groupSplitsStores, splits, splitPromises,
                  storeNoMoreSplits, noMoreSplits, maxSequenceId,
                  seenSplitGroups_, queuedSplitGroups_, numTotalSplits,
                  numQueuedSplits, barrierRequested_, barrierFinishPromises_,
                  numDriversUnderBarrier_, numBarriers, driverBarrier,
                  gotBarrier, tbar, nextSplitId, handed, accepted,
                  acceptedSequenceId, barrierRequests, barrierThrown,
                  barrierFulfilled, finishCalls, yieldChecks,
                  ignoredTerminate, sinkWrittenBytes, planFragment_,
                  numDriversPerSplitGroup_, concurrentSplitGroups_,
                  numRunningSplitGroups_, splitGroupStates_, driverCtxs,
                  partitionedOutputConsumed_, pendingFinished,
                  finishedChecks, lastCall, nextPc, nextI, nextFuture,
                  nextHasBarrier, runnableDrivers, blockedDrivers, futures,
                  nextResult, combined, nextCalls, blocked_, promises_,
                  error_, driverFuture, blocksMade, promisesMade,
                  promisesFulfilled, numRequested, barrierDrivers,
                  allPeersFinishedPromises, peerCalled, peerFuture, peers,
                  peerPromises, groupStarts, queue_, totalBytes_, maxBytes_,
                  numProducers_, producersFinished_, closed_,
                  consumerBlocked_, consumerFuture_,
                  producerUnblockPromises_, ppc, qpc, vector, mayContinue,
                  dequeueResult, enqueued, returned>>

\* HiveDataSink::abort
SinkAbort ==
  /\ sinkCalls < MaxSinkCalls
  /\ sinkCalls' = sinkCalls + 1
  /\ setState("ABORTED")
  /\ UNCHANGED <<state_, exception_, pauseRequested_, terminateRequested_,
                  toYield_, numThreads_, numRunningDrivers_,
                  numFinishedDrivers_, numTotalDrivers_,
                  numDriversUngrouped_, numFinishedOutputDrivers, drivers_,
                  threadFinishPromises_, taskCompletionPromises_, started,
                  isEnqueued, isTerminated, thread, numSuspensions,
                  hasBlockingFuture, closed, queued, dpc, dret, requeue, tst,
                  toff, tprom, cpc, rpc, rounds, rMaxWait, rOutcome, rClose,
                  inDriver, closeByTaskCount, finishedCount, listenerCalls,
                  completionSetValues, completionRequested, pauseFuture,
                  resumeCalls, timedOut, termFuture, mode_,
                  groupSplitsStores, splits, splitPromises,
                  storeNoMoreSplits, noMoreSplits, maxSequenceId,
                  seenSplitGroups_, queuedSplitGroups_, numTotalSplits,
                  numQueuedSplits, barrierRequested_, barrierFinishPromises_,
                  numDriversUnderBarrier_, numBarriers, driverBarrier,
                  gotBarrier, tbar, nextSplitId, handed, accepted,
                  acceptedSequenceId, barrierRequests, barrierThrown,
                  barrierFulfilled, finishCalls, yieldChecks,
                  ignoredTerminate, sinkWrittenBytes, planFragment_,
                  numDriversPerSplitGroup_, concurrentSplitGroups_,
                  numRunningSplitGroups_, splitGroupStates_, driverCtxs,
                  partitionedOutputConsumed_, pendingFinished,
                  finishedChecks, lastCall, nextPc, nextI, nextFuture,
                  nextHasBarrier, runnableDrivers, blockedDrivers, futures,
                  nextResult, combined, nextCalls, blocked_, promises_,
                  error_, driverFuture, blocksMade, promisesMade,
                  promisesFulfilled, numRequested, barrierDrivers,
                  allPeersFinishedPromises, peerCalled, peerFuture, peers,
                  peerPromises, groupStarts, queue_, totalBytes_, maxBytes_,
                  numProducers_, producersFinished_, closed_,
                  consumerBlocked_, consumerFuture_,
                  producerUnblockPromises_, ppc, qpc, vector, mayContinue,
                  dequeueResult, enqueued, returned>>

DataSinkNext ==
  \/ SinkAppendData
  \/ SinkFinish
  \/ SinkClose
  \/ SinkAbort

DataSinkSpec == Init /\ [][DataSinkNext]_vars

-----------------------------------------------------------------------------
(* Task::removeDriver called for a Driver that is no longer in drivers_.   *)

\* Task::removeDriver(self, d) called from outside Driver::close for a
\* Driver the task has already removed: the loop over drivers_ finds no
\* entry, no counter changes, and 'allFinished' keeps its initial value
\* true, so that terminate(kFinished) follows.
CallRemoveDriver(d) ==
  /\ cpc = "idle"
  /\ started = "yes"
  /\ closed[d] /\ ~drivers_[d]
  /\ removeDriver(d)
  /\ cpc' = IF removeDriverAllFinished(d) THEN "removeTerm" ELSE "idle"
  /\ UNCHANGED <<state_, exception_, pauseRequested_, terminateRequested_,
                  toYield_, numThreads_, numTotalDrivers_,
                  numDriversUngrouped_, threadFinishPromises_,
                  taskCompletionPromises_, started, isEnqueued, isTerminated,
                  thread, numSuspensions, hasBlockingFuture, closed, queued,
                  dpc, dret, requeue, tst, toff, tprom, rpc, rounds,
                  rMaxWait, rOutcome, rClose, inDriver, closeByTaskCount,
                  listenerCalls, completionSetValues, completionRequested,
                  pauseFuture, resumeCalls, timedOut, termFuture, mode_,
                  groupSplitsStores, splits, splitPromises,
                  storeNoMoreSplits, noMoreSplits, maxSequenceId,
                  seenSplitGroups_, queuedSplitGroups_, numTotalSplits,
                  numQueuedSplits, barrierRequested_, barrierFinishPromises_,
                  numDriversUnderBarrier_, numBarriers, driverBarrier,
                  gotBarrier, tbar, nextSplitId, handed, accepted,
                  acceptedSequenceId, barrierRequests, barrierThrown,
                  barrierFulfilled, finishCalls, yieldChecks,
                  ignoredTerminate, sinkState, sinkWrittenBytes, sinkError,
                  sinkCalls, planFragment_, numDriversPerSplitGroup_,
                  concurrentSplitGroups_, numRunningSplitGroups_,
                  splitGroupStates_, driverCtxs, partitionedOutputConsumed_,
                  pendingFinished, finishedChecks, lastCall, nextPc, nextI,
                  nextFuture, nextHasBarrier, runnableDrivers,
                  blockedDrivers, futures, nextResult, combined, nextCalls,
                  blocked_, promises_, error_, driverFuture, blocksMade,
                  promisesMade, promisesFulfilled, numRequested,
                  barrierDrivers, allPeersFinishedPromises, peerCalled,
                  peerFuture, peers, peerPromises, groupStarts, queue_,
                  totalBytes_, maxBytes_, numProducers_, producersFinished_,
                  closed_, consumerBlocked_, consumerFuture_,
                  producerUnblockPromises_, ppc, qpc, vector, mayContinue,
                  dequeueResult, enqueued, returned>>

\* The terminate(kFinished) call at the end of that removeDriver.
CallRemoveTerminate ==
  /\ cpc = "removeTerm"
  /\ terminateLocked(CallerAgent, "Finished")
  /\ IF ~terminateReturnsEarly("Finished")
     THEN /\ tst' = [tst EXCEPT ![CallerAgent] = "notify"]
          /\ cpc' = "call"
     ELSE /\ cpc' = "idle"
          /\ UNCHANGED tst
  /\ UNCHANGED <<pauseRequested_, toYield_, numThreads_,
                  numDriversUngrouped_, numFinishedOutputDrivers, started,
                  isEnqueued, numSuspensions, hasBlockingFuture, closed,
                  queued, dpc, dret, requeue, rpc, rounds, rMaxWait,
                  rOutcome, rClose, inDriver, closeByTaskCount,
                  listenerCalls, completionSetValues, completionRequested,
                  resumeCalls, timedOut, mode_, groupSplitsStores, splits,
                  splitPromises, storeNoMoreSplits, noMoreSplits,
                  maxSequenceId, seenSplitGroups_, queuedSplitGroups_,
                  numTotalSplits, numQueuedSplits, barrierRequested_,
                  numDriversUnderBarrier_, numBarriers, driverBarrier,
                  gotBarrier, nextSplitId, handed, accepted,
                  acceptedSequenceId, barrierRequests, barrierThrown,
                  barrierFulfilled, finishCalls, yieldChecks, sinkState,
                  sinkWrittenBytes, sinkError, sinkCalls, planFragment_,
                  numDriversPerSplitGroup_, concurrentSplitGroups_,
                  numRunningSplitGroups_, splitGroupStates_, driverCtxs,
                  partitionedOutputConsumed_, pendingFinished,
                  finishedChecks, lastCall, nextPc, nextI, nextFuture,
                  nextHasBarrier, runnableDrivers, blockedDrivers, futures,
                  nextResult, combined, nextCalls, blocked_, promises_,
                  error_, driverFuture, blocksMade, promisesMade,
                  promisesFulfilled, numRequested, barrierDrivers,
                  allPeersFinishedPromises, peerCalled, peerFuture, peers,
                  peerPromises, groupStarts, queue_, totalBytes_, maxBytes_,
                  numProducers_, producersFinished_, closed_,
                  consumerBlocked_, consumerFuture_,
                  producerUnblockPromises_, ppc, qpc, vector, mayContinue,
                  dequeueResult, enqueued, returned>>

RemoveDriverStep(d) ==
  \/ ThreadPick(d)
  \/ DriverFinish(d)
  \/ DriverLeave(d)
  \/ DriverLeaveFin(d)

RemoveNext ==
  \/ \E maxDrivers \in 1..MaxDrivers : StartFactories(maxDrivers)
  \/ StartDrivers
  \/ \E d \in Drivers : RemoveDriverStep(d)
  \/ \E a \in Agents : TerminateLocked(a)
  \/ \E a \in Agents : TerminateRest(a)
  \/ \E d \in Drivers : CallRemoveDriver(d)
  \/ CallRemoveTerminate

RemoveSpec == Init /\ [][RemoveNext]_vars

\* The Driver thread in a task that is not asked to yield.
ThreadsDriverStep(d) ==
  \/ ThreadPick(d)
  \/ DriverCheckStop(d)
  \/ DriverBlock(d)
  \/ DriverFinish(d)
  \/ DriverThrow(d)
  \/ DriverThrowClose(d)
  \/ DriverLeave(d)
  \/ DriverLeaveFin(d)
  \/ FutureReady(d)
  \/ DriverEnterSuspended(d)
  \/ DriverLeaveSuspended(d)

\* A task of one or two Drivers whose threads enter, suspend and leave while
\* the task is paused and resumed by a reclaim, cancelled, or finishes.
ThreadsNext ==
  \/ \E maxDrivers \in 1..MaxDrivers : StartFactories(maxDrivers)
  \/ StartDrivers
  \/ \E d \in Drivers : ThreadsDriverStep(d)
  \/ \E a \in Agents : TerminateLocked(a)
  \/ \E a \in Agents : TerminateRest(a)
  \/ \E w \in {0, 1} : ReclaimStart(w)
  \/ ReclaimPaused
  \/ ReclaimTimeout
  \/ ReclaimPool
  \/ ReclaimPoolThrows
  \/ ReclaimResume
  \/ ReclaimReturn
  \/ CallTerminate("Canceled")

ThreadsSpec == Init /\ [][ThreadsNext]_vars

-----------------------------------------------------------------------------
(* A task run by its plan: start, addSplit with a split group,             *)
(* noMoreSplits, removeDriver, setAllOutputConsumed, terminate.            *)

\* Task::getOutputPipelineId
outputPipelineId == 0

\* DriverFactory::groupedExecution of pipeline p.
groupedExecution(p) ==
  \/ planFragment_.execution = "grouped"
  \/ planFragment_.execution = "mixed" /\ p = outputPipelineId

\* Task::isUngroupedExecution
isUngroupedExecution == planFragment_.execution = "ungrouped"

\* Task::hasPartitionedOutput
hasPartitionedOutput == planFragment_.partitionedOutput

\* Task::numDrivers(pipelineId): start() is called with maxDrivers = 1.
numDrivers(p) == 1

\* DriverFactory::numTotalDrivers of pipeline p, as LocalPlanner::plan sets
\* it: the Drivers of all split groups of the plan.
numTotalDriversOf(p) ==
  numDrivers(p) * (IF groupedExecution(p) THEN planFragment_.numSplitGroups
                   ELSE 1)

\* The Drivers Task::createDriversLocked creates for split group g.
createDriversLocked(g) ==
  {[splitGroupId |-> g, pipelineId |-> p] :
     p \in {q \in Pipelines : groupedExecution(q) = (g # kUngroupedGroupId)}}

\* The total number of Drivers counted from the ungrouped Drivers alone.
numTotalDriversUngroupedOnly(seen, perGroup, ungrouped) == ungrouped

\* The total number of Drivers as recomputed from the split groups seen, in
\* checkNoMoreSplitGroupsLocked and in terminate.
numTotalDriversSeen(seen, perGroup, ungrouped) ==
  Cardinality(seen) * perGroup + ungrouped

\* Task::checkIfFinishedLocked not waiting for the partitioned output to be
\* consumed.
checkIfFinishedUnconsumed(finished, total, finishedOutput, consumed) ==
  /\ isRunningLocked
  /\ \/ finished = total
     \/ /\ isUngroupedExecution
        /\ finishedOutput = numDrivers(outputPipelineId)

\* Task::checkIfFinishedLocked on the values the caller has just written:
\* numFinishedDrivers_, numTotalDrivers_, numFinishedOutputDrivers of the
\* ungrouped split group, partitionedOutputConsumed_.
checkIfFinished(finished, total, finishedOutput, consumed) ==
  /\ isRunningLocked
  /\ \/ finished = total
     \/ /\ isUngroupedExecution
        /\ finishedOutput = numDrivers(outputPipelineId)
  /\ ~hasPartitionedOutput \/ consumed

\* A caller of checkIfFinishedLocked that got 'allFinished' goes on to call
\* terminate(kFinished) after it has released mutex_.
sawFinished(allFinished) ==
  /\ finishedChecks' = IF allFinished THEN finishedChecks + 1
                       ELSE finishedChecks
  /\ pendingFinished' = IF allFinished THEN pendingFinished + 1
                        ELSE pendingFinished

\* Task::ensureSplitGroupsAreBeingProcessedLocked starting queued split
\* groups also on a task that is not running.
groupsToStartAlways(queue, running, concurrent, perGroup) ==
  IF perGroup = 0 \/ running >= concurrent THEN 0
  ELSE Min(Len(queue), concurrent - running)

\* Task::ensureSplitGroupsAreBeingProcessedLocked starting every queued
\* split group whatever the number of split groups running.
groupsToStartUnlimited(queue, running, concurrent, perGroup) ==
  IF ~isRunningLocked \/ perGroup = 0 THEN 0 ELSE Len(queue)

\* Task::ensureSplitGroupsAreBeingProcessedLocked: the number of split
\* groups of 'queue' its loop starts when 'running' split groups are running.
groupsToStart(queue, running, concurrent, perGroup) ==
  IF ~isRunningLocked \/ perGroup = 0 \/ running >= concurrent THEN 0
  ELSE Min(Len(queue), concurrent - running)

\* Task::ensureSplitGroupsAreBeingProcessedLocked: the first k split groups
\* of 'queue' are taken out and their Drivers created and enqueued; 'ctxs',
\* 'states', 'running' and 'runningDrivers' are the values the caller has
\* written so far.
ensureSplitGroupsAreBeingProcessedLocked(k, queue, ctxs, states, running, runningDrivers, perGroup) ==
  LET new == {queue[i] : i \in 1..k}
  IN /\ queuedSplitGroups_' = SubSeq(queue, k + 1, Len(queue))
     /\ driverCtxs' =
          ctxs \cup UNION {createDriversLocked(g) : g \in new}
     /\ splitGroupStates_' =
          [g \in GroupIds |->
             IF g \in new
             THEN [states[g] EXCEPT !.numRunningDrivers = @ + perGroup]
             ELSE states[g]]
     /\ numRunningSplitGroups_' = running + k
     /\ numRunningDrivers_' = runningDrivers + k * perGroup
     /\ groupStarts' =
          [g \in GroupIds |->
             groupStarts[g] + Cardinality({i \in 1..k : queue[i] = g})]

\* Task::start up to the end of its first critical section:
\* createDriverFactoriesLocked, or the early return on a task that is not
\* running.
GroupStartFactories ==
  /\ started = "no"
  /\ lastCall' = "start"
  /\ IF ~isRunningLocked
     THEN /\ started' = "returned"
          /\ UNCHANGED <<numDriversPerSplitGroup_, numDriversUngrouped_,
                         numTotalDrivers_>>
     ELSE /\ started' = "factories"
          /\ numDriversPerSplitGroup_' =
               SumOver([p \in Pipelines |->
                          IF groupedExecution(p) THEN numDrivers(p) ELSE 0],
                       Pipelines)
          /\ numDriversUngrouped_' =
               SumOver([p \in Pipelines |->
                          IF groupedExecution(p) THEN 0 ELSE numDrivers(p)],
                       Pipelines)
          /\ numTotalDrivers_' =
               SumOver([p \in Pipelines |-> numTotalDriversOf(p)], Pipelines)
  /\ UNCHANGED <<state_, exception_, pauseRequested_, terminateRequested_,
                  toYield_, numThreads_, numRunningDrivers_,
                  numFinishedDrivers_, numFinishedOutputDrivers, drivers_,
                  threadFinishPromises_, taskCompletionPromises_, isEnqueued,
                  isTerminated, thread, numSuspensions, hasBlockingFuture,
                  closed, queued, dpc, dret, requeue, tst, toff, tprom, cpc,
                  rpc, rounds, rMaxWait, rOutcome, rClose, inDriver,
                  closeByTaskCount, finishedCount, listenerCalls,
                  completionSetValues, completionRequested, pauseFuture,
                  resumeCalls, timedOut, termFuture, mode_,
                  groupSplitsStores, splits, splitPromises,
                  storeNoMoreSplits, noMoreSplits, maxSequenceId,
                  seenSplitGroups_, queuedSplitGroups_, numTotalSplits,
                  numQueuedSplits, barrierRequested_, barrierFinishPromises_,
                  numDriversUnderBarrier_, numBarriers, driverBarrier,
                  gotBarrier, tbar, nextSplitId, handed, accepted,
                  acceptedSequenceId, barrierRequests, barrierThrown,
                  barrierFulfilled, finishCalls, yieldChecks,
                  ignoredTerminate, sinkState, sinkWrittenBytes, sinkError,
                  sinkCalls, planFragment_, concurrentSplitGroups_,
                  numRunningSplitGroups_, splitGroupStates_, driverCtxs,
                  partitionedOutputConsumed_, pendingFinished,
                  finishedChecks, nextPc, nextI, nextFuture, nextHasBarrier,
                  runnableDrivers, blockedDrivers, futures, nextResult,
                  combined, nextCalls, blocked_, promises_, error_,
                  driverFuture, blocksMade, promisesMade, promisesFulfilled,
                  numRequested, barrierDrivers, allPeersFinishedPromises,
                  peerCalled, peerFuture, peers, peerPromises, groupStarts,
                  queue_, totalBytes_, maxBytes_, numProducers_,
                  producersFinished_, closed_, consumerBlocked_,
                  consumerFuture_, producerUnblockPromises_, ppc, qpc,
                  vector, mayContinue, dequeueResult, enqueued, returned>>

\* Task::createAndStartDrivers(c) called by start(), and the catch block of
\* start() when it throws because the task was terminated in between.
GroupCreateAndStartDrivers(c) ==
  /\ started = "factories"
  /\ lastCall' = "createAndStartDrivers"
  /\ IF isRunningLocked
     THEN /\ started' = "yes"
          /\ concurrentSplitGroups_' = c
          /\ LET k == groupsToStart(queuedSplitGroups_, numRunningSplitGroups_,
                                    c, numDriversPerSplitGroup_)
                 ungrouped == IF numDriversUngrouped_ > 0
                              THEN createDriversLocked(kUngroupedGroupId)
                              ELSE {}
             IN ensureSplitGroupsAreBeingProcessedLocked(
                  k, queuedSplitGroups_, driverCtxs \cup ungrouped,
                  [splitGroupStates_ EXCEPT
                     ![kUngroupedGroupId].numRunningDrivers =
                        @ + Cardinality(ungrouped)],
                  numRunningSplitGroups_,
                  numRunningDrivers_ + Cardinality(ungrouped),
                  numDriversPerSplitGroup_)
          /\ UNCHANGED numFinishedDrivers_
     ELSE /\ started' = "failed"
          /\ numFinishedDrivers_' = numTotalDrivers_
          /\ UNCHANGED <<concurrentSplitGroups_, queuedSplitGroups_,
                         driverCtxs, splitGroupStates_,
                         numRunningSplitGroups_, numRunningDrivers_,
                         groupStarts>>
  /\ UNCHANGED <<state_, exception_, pauseRequested_, terminateRequested_,
                  toYield_, numThreads_, numTotalDrivers_,
                  numDriversUngrouped_, numFinishedOutputDrivers, drivers_,
                  threadFinishPromises_, taskCompletionPromises_, isEnqueued,
                  isTerminated, thread, numSuspensions, hasBlockingFuture,
                  closed, queued, dpc, dret, requeue, tst, toff, tprom, cpc,
                  rpc, rounds, rMaxWait, rOutcome, rClose, inDriver,
                  closeByTaskCount, finishedCount, listenerCalls,
                  completionSetValues, completionRequested, pauseFuture,
                  resumeCalls, timedOut, termFuture, mode_,
                  groupSplitsStores, splits, splitPromises,
                  storeNoMoreSplits, noMoreSplits, maxSequenceId,
                  seenSplitGroups_, numTotalSplits, numQueuedSplits,
                  barrierRequested_, barrierFinishPromises_,
                  numDriversUnderBarrier_, numBarriers, driverBarrier,
                  gotBarrier, tbar, nextSplitId, handed, accepted,
                  acceptedSequenceId, barrierRequests, barrierThrown,
                  barrierFulfilled, finishCalls, yieldChecks,
                  ignoredTerminate, sinkState, sinkWrittenBytes, sinkError,
                  sinkCalls, planFragment_, numDriversPerSplitGroup_,
                  partitionedOutputConsumed_, pendingFinished,
                  finishedChecks, nextPc, nextI, nextFuture, nextHasBarrier,
                  runnableDrivers, blockedDrivers, futures, nextResult,
                  combined, nextCalls, blocked_, promises_, error_,
                  driverFuture, blocksMade, promisesMade, promisesFulfilled,
                  numRequested, barrierDrivers, allPeersFinishedPromises,
                  peerCalled, peerFuture, peers, peerPromises, queue_,
                  totalBytes_, maxBytes_, numProducers_, producersFinished_,
                  closed_, consumerBlocked_, consumerFuture_,
                  producerUnblockPromises_, ppc, qpc, vector, mayContinue,
                  dequeueResult, enqueued, returned>>

\* Task::addSplit of a split of split group g: the first split of a group
\* queues the group and starts it if a slot is free. The split source adds
\* no split group after noMoreSplits. A new split group added between the
\* two critical sections of start() would have its Drivers stored in
\* drivers_ before that vector has any slot; such runs are not followed.
GroupAddSplit(g) ==
  /\ ~isUngroupedExecution
  /\ g <= planFragment_.numSplitGroups
  /\ \A n \in Leaves : ~noMoreSplits[n]
  /\ started = "factories" /\ isRunningLocked => g \in seenSplitGroups_
  /\ lastCall' = "addSplit"
  /\ IF isRunningLocked /\ g \notin seenSplitGroups_
     THEN /\ seenSplitGroups_' = seenSplitGroups_ \cup {g}
          /\ LET queue == Append(queuedSplitGroups_, g)
                 k == groupsToStart(queue, numRunningSplitGroups_,
                                    concurrentSplitGroups_,
                                    numDriversPerSplitGroup_)
             IN ensureSplitGroupsAreBeingProcessedLocked(
                  k, queue, driverCtxs, splitGroupStates_,
                  numRunningSplitGroups_, numRunningDrivers_,
                  numDriversPerSplitGroup_)
     ELSE UNCHANGED <<seenSplitGroups_, queuedSplitGroups_, driverCtxs,
                      splitGroupStates_, numRunningSplitGroups_,
                      numRunningDrivers_, groupStarts>>
  /\ UNCHANGED <<state_, exception_, pauseRequested_, terminateRequested_,
                  toYield_, numThreads_, numFinishedDrivers_,
                  numTotalDrivers_, numDriversUngrouped_,
                  numFinishedOutputDrivers, drivers_, threadFinishPromises_,
                  taskCompletionPromises_, started, isEnqueued, isTerminated,
                  thread, numSuspensions, hasBlockingFuture, closed, queued,
                  dpc, dret, requeue, tst, toff, tprom, cpc, rpc, rounds,
                  rMaxWait, rOutcome, rClose, inDriver, closeByTaskCount,
                  finishedCount, listenerCalls, completionSetValues,
                  completionRequested, pauseFuture, resumeCalls, timedOut,
                  termFuture, mode_, groupSplitsStores, splits,
                  splitPromises, storeNoMoreSplits, noMoreSplits,
                  maxSequenceId, numTotalSplits, numQueuedSplits,
                  barrierRequested_, barrierFinishPromises_,
                  numDriversUnderBarrier_, numBarriers, driverBarrier,
                  gotBarrier, tbar, nextSplitId, handed, accepted,
                  acceptedSequenceId, barrierRequests, barrierThrown,
                  barrierFulfilled, finishCalls, yieldChecks,
                  ignoredTerminate, sinkState, sinkWrittenBytes, sinkError,
                  sinkCalls, planFragment_, numDriversPerSplitGroup_,
                  concurrentSplitGroups_, partitionedOutputConsumed_,
                  pendingFinished, finishedChecks, nextPc, nextI, nextFuture,
                  nextHasBarrier, runnableDrivers, blockedDrivers, futures,
                  nextResult, combined, nextCalls, blocked_, promises_,
                  error_, driverFuture, blocksMade, promisesMade,
                  promisesFulfilled, numRequested, barrierDrivers,
                  allPeersFinishedPromises, peerCalled, peerFuture, peers,
                  peerPromises, queue_, totalBytes_, maxBytes_,
                  numProducers_, producersFinished_, closed_,
                  consumerBlocked_, consumerFuture_,
                  producerUnblockPromises_, ppc, qpc, vector, mayContinue,
                  dequeueResult, enqueued, returned>>

\* Task::noMoreSplits(n): checkNoMoreSplitGroupsLocked recomputes
\* numTotalDrivers_ once the task was started and every leaf has received
\* the message, and then checks whether the task has finished.
GroupNoMoreSplits(n) ==
  /\ ~noMoreSplits[n]
  /\ lastCall' = "noMoreSplits"
  /\ noMoreSplits' = [noMoreSplits EXCEPT ![n] = TRUE]
  /\ IF /\ ~isUngroupedExecution
        /\ numDriversPerSplitGroup_ # 0
        /\ \A m \in Leaves : noMoreSplits'[m]
     THEN /\ numTotalDrivers_' =
               numTotalDriversSeen(seenSplitGroups_, numDriversPerSplitGroup_,
                                   numDriversUngrouped_)
          /\ sawFinished(checkIfFinished(
               numFinishedDrivers_, numTotalDrivers_',
               splitGroupStates_[kUngroupedGroupId].numFinishedOutputDrivers,
               partitionedOutputConsumed_))
     ELSE /\ UNCHANGED numTotalDrivers_
          /\ sawFinished(FALSE)
  /\ UNCHANGED <<state_, exception_, pauseRequested_, terminateRequested_,
                  toYield_, numThreads_, numRunningDrivers_,
                  numFinishedDrivers_, numDriversUngrouped_,
                  numFinishedOutputDrivers, drivers_, threadFinishPromises_,
                  taskCompletionPromises_, started, isEnqueued, isTerminated,
                  thread, numSuspensions, hasBlockingFuture, closed, queued,
                  dpc, dret, requeue, tst, toff, tprom, cpc, rpc, rounds,
                  rMaxWait, rOutcome, rClose, inDriver, closeByTaskCount,
                  finishedCount, listenerCalls, completionSetValues,
                  completionRequested, pauseFuture, resumeCalls, timedOut,
                  termFuture, mode_, groupSplitsStores, splits,
                  splitPromises, storeNoMoreSplits, maxSequenceId,
                  seenSplitGroups_, queuedSplitGroups_, numTotalSplits,
                  numQueuedSplits, barrierRequested_, barrierFinishPromises_,
                  numDriversUnderBarrier_, numBarriers, driverBarrier,
                  gotBarrier, tbar, nextSplitId, handed, accepted,
                  acceptedSequenceId, barrierRequests, barrierThrown,
                  barrierFulfilled, finishCalls, yieldChecks,
                  ignoredTerminate, sinkState, sinkWrittenBytes, sinkError,
                  sinkCalls, planFragment_, numDriversPerSplitGroup_,
                  concurrentSplitGroups_, numRunningSplitGroups_,
                  splitGroupStates_, driverCtxs, partitionedOutputConsumed_,
                  nextPc, nextI, nextFuture, nextHasBarrier, runnableDrivers,
                  blockedDrivers, futures, nextResult, combined, nextCalls,
                  blocked_, promises_, error_, driverFuture, blocksMade,
                  promisesMade, promisesFulfilled, numRequested,
                  barrierDrivers, allPeersFinishedPromises, peerCalled,
                  peerFuture, peers, peerPromises, groupStarts, queue_,
                  totalBytes_, maxBytes_, numProducers_, producersFinished_,
                  closed_, consumerBlocked_, consumerFuture_,
                  producerUnblockPromises_, ppc, qpc, vector, mayContinue,
                  dequeueResult, enqueued, returned>>

\* Task::setAllOutputConsumed, called once by the output buffer manager
\* for the buffer the started task has set up.
GroupSetAllOutputConsumed ==
  /\ hasPartitionedOutput
  /\ started = "yes"
  /\ ~partitionedOutputConsumed_
  /\ lastCall' = "setAllOutputConsumed"
  /\ partitionedOutputConsumed_' = TRUE
  /\ sawFinished(checkIfFinished(
       numFinishedDrivers_, numTotalDrivers_,
       splitGroupStates_[kUngroupedGroupId].numFinishedOutputDrivers, TRUE))
  /\ UNCHANGED <<state_, exception_, pauseRequested_, terminateRequested_,
                  toYield_, numThreads_, numRunningDrivers_,
                  numFinishedDrivers_, numTotalDrivers_,
                  numDriversUngrouped_, numFinishedOutputDrivers, drivers_,
                  threadFinishPromises_, taskCompletionPromises_, started,
                  isEnqueued, isTerminated, thread, numSuspensions,
                  hasBlockingFuture, closed, queued, dpc, dret, requeue, tst,
                  toff, tprom, cpc, rpc, rounds, rMaxWait, rOutcome, rClose,
                  inDriver, closeByTaskCount, finishedCount, listenerCalls,
                  completionSetValues, completionRequested, pauseFuture,
                  resumeCalls, timedOut, termFuture, mode_,
                  groupSplitsStores, splits, splitPromises,
                  storeNoMoreSplits, noMoreSplits, maxSequenceId,
                  seenSplitGroups_, queuedSplitGroups_, numTotalSplits,
                  numQueuedSplits, barrierRequested_, barrierFinishPromises_,
                  numDriversUnderBarrier_, numBarriers, driverBarrier,
                  gotBarrier, tbar, nextSplitId, handed, accepted,
                  acceptedSequenceId, barrierRequests, barrierThrown,
                  barrierFulfilled, finishCalls, yieldChecks,
                  ignoredTerminate, sinkState, sinkWrittenBytes, sinkError,
                  sinkCalls, planFragment_, numDriversPerSplitGroup_,
                  concurrentSplitGroups_, numRunningSplitGroups_,
                  splitGroupStates_, driverCtxs, nextPc, nextI, nextFuture,
                  nextHasBarrier, runnableDrivers, blockedDrivers, futures,
                  nextResult, combined, nextCalls, blocked_, promises_,
                  error_, driverFuture, blocksMade, promisesMade,
                  promisesFulfilled, numRequested, barrierDrivers,
                  allPeersFinishedPromises, peerCalled, peerFuture, peers,
                  peerPromises, groupStarts, queue_, totalBytes_, maxBytes_,
                  numProducers_, producersFinished_, closed_,
                  consumerBlocked_, consumerFuture_,
                  producerUnblockPromises_, ppc, qpc, vector, mayContinue,
                  dequeueResult, enqueued, returned>>

\* Task::removeDriver of the Driver with DriverCtx 'ctx', called from
\* Driver::close on the Driver's thread: its critical section.
GroupRemoveDriver(ctx) ==
  /\ ctx \in driverCtxs
  /\ lastCall' = "removeDriver"
  /\ numFinishedDrivers_' = numFinishedDrivers_ + 1
  /\ LET g == ctx.splitGroupId
         states ==
           [splitGroupStates_ EXCEPT
              ![g].numRunningDrivers = @ - 1,
              ![g].numFinishedOutputDrivers =
                 IF ctx.pipelineId = outputPipelineId THEN @ + 1 ELSE @]
         runningDrivers == IF isRunningLocked THEN numRunningDrivers_ - 1
                           ELSE numRunningDrivers_
         groupDone == states[g].numRunningDrivers = 0
                        /\ g # kUngroupedGroupId
         running == IF groupDone THEN numRunningSplitGroups_ - 1
                    ELSE numRunningSplitGroups_
         k == IF groupDone
              THEN groupsToStart(queuedSplitGroups_, running,
                                 concurrentSplitGroups_,
                                 numDriversPerSplitGroup_)
              ELSE 0
     IN /\ sawFinished(checkIfFinished(
             numFinishedDrivers_', numTotalDrivers_,
             states[kUngroupedGroupId].numFinishedOutputDrivers,
             partitionedOutputConsumed_))
        /\ ensureSplitGroupsAreBeingProcessedLocked(
             k, queuedSplitGroups_, driverCtxs \ {ctx}, states, running,
             runningDrivers, numDriversPerSplitGroup_)
  /\ UNCHANGED <<state_, exception_, pauseRequested_, terminateRequested_,
                  toYield_, numThreads_, numTotalDrivers_,
                  numDriversUngrouped_, numFinishedOutputDrivers, drivers_,
                  threadFinishPromises_, taskCompletionPromises_, started,
                  isEnqueued, isTerminated, thread, numSuspensions,
                  hasBlockingFuture, closed, queued, dpc, dret, requeue, tst,
                  toff, tprom, cpc, rpc, rounds, rMaxWait, rOutcome, rClose,
                  inDriver, closeByTaskCount, finishedCount, listenerCalls,
                  completionSetValues, completionRequested, pauseFuture,
                  resumeCalls, timedOut, termFuture, mode_,
                  groupSplitsStores, splits, splitPromises,
                  storeNoMoreSplits, noMoreSplits, maxSequenceId,
                  seenSplitGroups_, numTotalSplits, numQueuedSplits,
                  barrierRequested_, barrierFinishPromises_,
                  numDriversUnderBarrier_, numBarriers, driverBarrier,
                  gotBarrier, tbar, nextSplitId, handed, accepted,
                  acceptedSequenceId, barrierRequests, barrierThrown,
                  barrierFulfilled, finishCalls, yieldChecks,
                  ignoredTerminate, sinkState, sinkWrittenBytes, sinkError,
                  sinkCalls, planFragment_, numDriversPerSplitGroup_,
                  concurrentSplitGroups_, partitionedOutputConsumed_, nextPc,
                  nextI, nextFuture, nextHasBarrier, runnableDrivers,
                  blockedDrivers, futures, nextResult, combined, nextCalls,
                  blocked_, promises_, error_, driverFuture, blocksMade,
                  promisesMade, promisesFulfilled, numRequested,
                  barrierDrivers, allPeersFinishedPromises, peerCalled,
                  peerFuture, peers, peerPromises, queue_, totalBytes_,
                  maxBytes_, numProducers_, producersFinished_, closed_,
                  consumerBlocked_, consumerFuture_,
                  producerUnblockPromises_, ppc, qpc, vector, mayContinue,
                  dequeueResult, enqueued, returned>>

\* Task::terminate(st), first critical section: 'off' are the Drivers that
\* are off thread, which terminate takes out of drivers_ and closes; the
\* others call removeDriver when their threads see the termination.
terminateByPlan(st, off) ==
  IF ~isRunningLocked
  THEN /\ ignoredTerminate' = (ignoredTerminate \/ state_ = st)
       /\ UNCHANGED <<state_, exception_, terminateRequested_,
                      numTotalDrivers_, numRunningDrivers_, driverCtxs,
                      numFinishedDrivers_>>
  ELSE /\ state_' = st
       /\ exception_' = IF st = "Canceled" THEN "Cancelled" ELSE exception_
       /\ terminateRequested_' = TRUE
       /\ numTotalDrivers_' =
            numTotalDriversSeen(seenSplitGroups_, numDriversPerSplitGroup_,
                                numDriversUngrouped_)
       /\ numRunningDrivers_' = 0
       /\ driverCtxs' = driverCtxs \ off
       /\ numFinishedDrivers_' = numFinishedDrivers_ + Cardinality(off)
       /\ UNCHANGED ignoredTerminate

\* Task::requestCancel: terminate(kCanceled).
GroupCancel(off) ==
  /\ off \subseteq driverCtxs
  /\ ~isRunningLocked => off = {}
  /\ lastCall' = "requestCancel"
  /\ terminateByPlan("Canceled", off)
  /\ UNCHANGED <<pauseRequested_, toYield_, numThreads_,
                  numDriversUngrouped_, numFinishedOutputDrivers, drivers_,
                  threadFinishPromises_, taskCompletionPromises_, started,
                  isEnqueued, isTerminated, thread, numSuspensions,
                  hasBlockingFuture, closed, queued, dpc, dret, requeue, tst,
                  toff, tprom, cpc, rpc, rounds, rMaxWait, rOutcome, rClose,
                  inDriver, closeByTaskCount, finishedCount, listenerCalls,
                  completionSetValues, completionRequested, pauseFuture,
                  resumeCalls, timedOut, termFuture, mode_,
                  groupSplitsStores, splits, splitPromises,
                  storeNoMoreSplits, noMoreSplits, maxSequenceId,
                  seenSplitGroups_, queuedSplitGroups_, numTotalSplits,
                  numQueuedSplits, barrierRequested_, barrierFinishPromises_,
                  numDriversUnderBarrier_, numBarriers, driverBarrier,
                  gotBarrier, tbar, nextSplitId, handed, accepted,
                  acceptedSequenceId, barrierRequests, barrierThrown,
                  barrierFulfilled, finishCalls, yieldChecks, sinkState,
                  sinkWrittenBytes, sinkError, sinkCalls, planFragment_,
                  numDriversPerSplitGroup_, concurrentSplitGroups_,
                  numRunningSplitGroups_, splitGroupStates_,
                  partitionedOutputConsumed_, pendingFinished,
                  finishedChecks, nextPc, nextI, nextFuture, nextHasBarrier,
                  runnableDrivers, blockedDrivers, futures, nextResult,
                  combined, nextCalls, blocked_, promises_, error_,
                  driverFuture, blocksMade, promisesMade, promisesFulfilled,
                  numRequested, barrierDrivers, allPeersFinishedPromises,
                  peerCalled, peerFuture, peers, peerPromises, groupStarts,
                  queue_, totalBytes_, maxBytes_, numProducers_,
                  producersFinished_, closed_, consumerBlocked_,
                  consumerFuture_, producerUnblockPromises_, ppc, qpc,
                  vector, mayContinue, dequeueResult, enqueued, returned>>

\* A caller that saw allFinished calls terminate(kFinished).
GroupTerminateFinished(off) ==
  /\ pendingFinished > 0
  /\ pendingFinished' = pendingFinished - 1
  /\ off \subseteq driverCtxs
  /\ ~isRunningLocked => off = {}
  /\ lastCall' = "terminate"
  /\ terminateByPlan("Finished", off)
  /\ UNCHANGED <<pauseRequested_, toYield_, numThreads_,
                  numDriversUngrouped_, numFinishedOutputDrivers, drivers_,
                  threadFinishPromises_, taskCompletionPromises_, started,
                  isEnqueued, isTerminated, thread, numSuspensions,
                  hasBlockingFuture, closed, queued, dpc, dret, requeue, tst,
                  toff, tprom, cpc, rpc, rounds, rMaxWait, rOutcome, rClose,
                  inDriver, closeByTaskCount, finishedCount, listenerCalls,
                  completionSetValues, completionRequested, pauseFuture,
                  resumeCalls, timedOut, termFuture, mode_,
                  groupSplitsStores, splits, splitPromises,
                  storeNoMoreSplits, noMoreSplits, maxSequenceId,
                  seenSplitGroups_, queuedSplitGroups_, numTotalSplits,
                  numQueuedSplits, barrierRequested_, barrierFinishPromises_,
                  numDriversUnderBarrier_, numBarriers, driverBarrier,
                  gotBarrier, tbar, nextSplitId, handed, accepted,
                  acceptedSequenceId, barrierRequests, barrierThrown,
                  barrierFulfilled, finishCalls, yieldChecks, sinkState,
                  sinkWrittenBytes, sinkError, sinkCalls, planFragment_,
                  numDriversPerSplitGroup_, concurrentSplitGroups_,
                  numRunningSplitGroups_, splitGroupStates_,
                  partitionedOutputConsumed_, finishedChecks, nextPc, nextI,
                  nextFuture, nextHasBarrier, runnableDrivers,
                  blockedDrivers, futures, nextResult, combined, nextCalls,
                  blocked_, promises_, error_, driverFuture, blocksMade,
                  promisesMade, promisesFulfilled, numRequested,
                  barrierDrivers, allPeersFinishedPromises, peerCalled,
                  peerFuture, peers, peerPromises, groupStarts, queue_,
                  totalBytes_, maxBytes_, numProducers_, producersFinished_,
                  closed_, consumerBlocked_, consumerFuture_,
                  producerUnblockPromises_, ppc, qpc, vector, mayContinue,
                  dequeueResult, enqueued, returned>>

GroupNext ==
  \/ GroupStartFactories
  \/ \E c \in 1..MaxConcurrentSplitGroups : GroupCreateAndStartDrivers(c)
  \/ \E g \in SplitGroupIds : GroupAddSplit(g)
  \/ \E n \in Leaves : GroupNoMoreSplits(n)
  \/ GroupSetAllOutputConsumed
  \/ \E ctx \in driverCtxs : GroupRemoveDriver(ctx)
  \/ \E off \in SUBSET driverCtxs : GroupCancel(off)
  \/ \E off \in SUBSET driverCtxs : GroupTerminateFinished(off)

GroupSpec == GroupInit /\ [][GroupNext]_vars

\* The same with a caller that saw allFinished going on to its terminate
\* call.
GroupFairSpec ==
  /\ GroupSpec
  /\ WF_vars(\E off \in SUBSET driverCtxs : GroupTerminateFinished(off))

-----------------------------------------------------------------------------
(* Serial execution: Task::next and Task::DriverBlockingState. Driver d is *)
(* the Driver of pipeline d - 1; Driver 1 is the output Driver.            *)

\* Task::DriverBlockingState::blocked not looking at error_.
blockedIgnoringError(d) == IF blocked_[d] THEN "blocked" ELSE "ready"

\* Task::DriverBlockingState::blocked of Driver d: it rethrows the stored
\* error ("rethrow"), returns true with a new future ("blocked") or returns
\* false ("ready").
blocked(d) ==
  IF error_[d] THEN "rethrow"
  ELSE IF blocked_[d] THEN "blocked"
  ELSE "ready"

\* Task::DriverBlockingState::setDriverFuture up to the point where the
\* continuations are attached to the Driver's future.
setDriverFuture(d) ==
  /\ blocked_' = [blocked_ EXCEPT ![d] = TRUE]
  /\ driverFuture' = [driverFuture EXCEPT ![d] = "pending"]
  /\ blocksMade' = [blocksMade EXCEPT ![d] = @ + 1]

\* The continuation setDriverFuture has attached runs, on the thread that
\* realizes the Driver's future with a value (ok) or with an exception: the
\* waiter promises are moved out, the error is stored, the state is cleared
\* and the promises are fulfilled.
RealizeDriverFuture(d, ok) ==
  /\ driverFuture[d] = "pending"
  /\ driverFuture' = [driverFuture EXCEPT ![d] = "none"]
  /\ error_' = [error_ EXCEPT ![d] = ~ok]
  /\ blocked_' = [blocked_ EXCEPT ![d] = FALSE]
  /\ promisesFulfilled' = [promisesFulfilled EXCEPT ![d] = @ + promises_[d]]
  /\ promises_' = [promises_ EXCEPT ![d] = 0]
  /\ futures' = [futures EXCEPT ![d] = "ready"]
  /\ UNCHANGED <<state_, exception_, pauseRequested_, terminateRequested_,
                  toYield_, numThreads_, numRunningDrivers_,
                  numFinishedDrivers_, numTotalDrivers_,
                  numDriversUngrouped_, numFinishedOutputDrivers, drivers_,
                  threadFinishPromises_, taskCompletionPromises_, started,
                  isEnqueued, isTerminated, thread, numSuspensions,
                  hasBlockingFuture, closed, queued, dpc, dret, requeue, tst,
                  toff, tprom, cpc, rpc, rounds, rMaxWait, rOutcome, rClose,
                  inDriver, closeByTaskCount, finishedCount, listenerCalls,
                  completionSetValues, completionRequested, pauseFuture,
                  resumeCalls, timedOut, termFuture, mode_,
                  groupSplitsStores, splits, splitPromises,
                  storeNoMoreSplits, noMoreSplits, maxSequenceId,
                  seenSplitGroups_, queuedSplitGroups_, numTotalSplits,
                  numQueuedSplits, barrierRequested_, barrierFinishPromises_,
                  numDriversUnderBarrier_, numBarriers, driverBarrier,
                  gotBarrier, tbar, nextSplitId, handed, accepted,
                  acceptedSequenceId, barrierRequests, barrierThrown,
                  barrierFulfilled, finishCalls, yieldChecks,
                  ignoredTerminate, sinkState, sinkWrittenBytes, sinkError,
                  sinkCalls, planFragment_, numDriversPerSplitGroup_,
                  concurrentSplitGroups_, numRunningSplitGroups_,
                  splitGroupStates_, driverCtxs, partitionedOutputConsumed_,
                  pendingFinished, finishedChecks, lastCall, nextPc, nextI,
                  nextFuture, nextHasBarrier, runnableDrivers,
                  blockedDrivers, nextResult, combined, nextCalls,
                  blocksMade, promisesMade, numRequested, barrierDrivers,
                  allPeersFinishedPromises, peerCalled, peerFuture, peers,
                  peerPromises, groupStarts, queue_, totalBytes_, maxBytes_,
                  numProducers_, producersFinished_, closed_,
                  consumerBlocked_, consumerFuture_,
                  producerUnblockPromises_, ppc, qpc, vector, mayContinue,
                  dequeueResult, enqueued, returned>>

\* Task::next: TRUE when its checks at entry pass.
nextChecksPass ==
  /\ state_ = "Running"
  /\ \A n \in Leaves : noMoreSplits[n] \/ underBarrier

\* Task::next is called, with a future (hasFuture) or with nullptr, on a
\* task whose plan has n pipelines: its checks, and on the first call the
\* creation of the Drivers and of their blocking states.
SerialNextBegin(hasFuture, n) ==
  /\ nextPc = "idle"
  /\ nextCalls < MaxNextCalls
  /\ started # "no" => n = numDriversUngrouped_
  /\ nextCalls' = nextCalls + 1
  /\ combined' = {}
  /\ IF ~nextChecksPass
     THEN /\ nextResult' = "failCheck"
          /\ UNCHANGED <<nextPc, nextI, nextFuture, nextHasBarrier,
                         runnableDrivers, blockedDrivers, futures, started,
                         numDriversUngrouped_, numTotalDrivers_, drivers_,
                         driverBarrier, numDriversUnderBarrier_, finishCalls>>
     ELSE /\ nextResult' = "none"
          /\ nextPc' = "visit"
          /\ nextI' = 1
          /\ nextFuture' = hasFuture
          /\ nextHasBarrier' = underBarrier
          /\ runnableDrivers' = 0
          /\ blockedDrivers' = 0
          /\ futures' = [d \in Drivers |-> "ready"]
          /\ IF started = "no"
             THEN /\ started' = "yes"
                  /\ numDriversUngrouped_' = numDriversUngrouped_ + n
                  /\ numTotalDrivers_' = numTotalDrivers_ + n
                  /\ drivers_' = [d \in Drivers |-> d <= n]
                  /\ IF underBarrier
                     THEN startDriverBarriersLocked(1..n)
                     ELSE UNCHANGED <<driverBarrier, numDriversUnderBarrier_,
                                      finishCalls>>
             ELSE UNCHANGED <<started, numDriversUngrouped_, numTotalDrivers_,
                              drivers_, driverBarrier,
                              numDriversUnderBarrier_, finishCalls>>
  /\ UNCHANGED <<state_, exception_, pauseRequested_, terminateRequested_,
                  toYield_, numThreads_, numRunningDrivers_,
                  numFinishedDrivers_, numFinishedOutputDrivers,
                  threadFinishPromises_, taskCompletionPromises_, isEnqueued,
                  isTerminated, thread, numSuspensions, hasBlockingFuture,
                  closed, queued, dpc, dret, requeue, tst, toff, tprom, cpc,
                  rpc, rounds, rMaxWait, rOutcome, rClose, inDriver,
                  closeByTaskCount, finishedCount, listenerCalls,
                  completionSetValues, completionRequested, pauseFuture,
                  resumeCalls, timedOut, termFuture, mode_,
                  groupSplitsStores, splits, splitPromises,
                  storeNoMoreSplits, noMoreSplits, maxSequenceId,
                  seenSplitGroups_, queuedSplitGroups_, numTotalSplits,
                  numQueuedSplits, barrierRequested_, barrierFinishPromises_,
                  numBarriers, gotBarrier, tbar, nextSplitId, handed,
                  accepted, acceptedSequenceId, barrierRequests,
                  barrierThrown, barrierFulfilled, yieldChecks,
                  ignoredTerminate, sinkState, sinkWrittenBytes, sinkError,
                  sinkCalls, planFragment_, numDriversPerSplitGroup_,
                  concurrentSplitGroups_, numRunningSplitGroups_,
                  splitGroupStates_, driverCtxs, partitionedOutputConsumed_,
                  pendingFinished, finishedChecks, lastCall, blocked_,
                  promises_, error_, driverFuture, blocksMade, promisesMade,
                  promisesFulfilled, numRequested, barrierDrivers,
                  allPeersFinishedPromises, peerCalled, peerFuture, peers,
                  peerPromises, groupStarts, queue_, totalBytes_, maxBytes_,
                  numProducers_, producersFinished_, closed_,
                  consumerBlocked_, consumerFuture_,
                  producerUnblockPromises_, ppc, qpc, vector, mayContinue,
                  dequeueResult, enqueued, returned>>

\* Driver d is run by this pass of Task::next: it is present, its future of
\* this call is ready and blocked() returns false.
runnable(d) ==
  drivers_[d] /\ futures[d] = "ready" /\ blocked(d) = "ready"

\* The loop of Task::next at a Driver it does not run: the Driver has
\* finished, is still blocked on the future of this call, or blocked()
\* rethrows or hands out a new future.
SerialNextCheck ==
  /\ nextPc = "visit"
  /\ nextI <= numDriversUngrouped_
  /\ ~runnable(nextI)
  /\ LET d == nextI
     IN IF ~drivers_[d]
        THEN /\ nextI' = nextI + 1
             /\ UNCHANGED <<blockedDrivers, nextPc, nextResult, promises_,
                            promisesMade, futures>>
        ELSE IF futures[d] = "pending"
        THEN /\ nextI' = nextI + 1
             /\ blockedDrivers' = blockedDrivers + 1
             /\ UNCHANGED <<nextPc, nextResult, promises_, promisesMade,
                            futures>>
        ELSE IF blocked(d) = "rethrow"
        THEN /\ nextPc' = "idle"
             /\ nextResult' = "failError"
             /\ UNCHANGED <<nextI, blockedDrivers, promises_, promisesMade,
                            futures>>
        ELSE /\ promises_' = [promises_ EXCEPT ![d] = @ + 1]
             /\ promisesMade' = [promisesMade EXCEPT ![d] = @ + 1]
             /\ futures' = [futures EXCEPT ![d] = "pending"]
             /\ nextI' = nextI + 1
             /\ blockedDrivers' = blockedDrivers + 1
             /\ UNCHANGED <<nextPc, nextResult>>
  /\ UNCHANGED <<state_, exception_, pauseRequested_, terminateRequested_,
                  toYield_, numThreads_, numRunningDrivers_,
                  numFinishedDrivers_, numTotalDrivers_,
                  numDriversUngrouped_, numFinishedOutputDrivers, drivers_,
                  threadFinishPromises_, taskCompletionPromises_, started,
                  isEnqueued, isTerminated, thread, numSuspensions,
                  hasBlockingFuture, closed, queued, dpc, dret, requeue, tst,
                  toff, tprom, cpc, rpc, rounds, rMaxWait, rOutcome, rClose,
                  inDriver, closeByTaskCount, finishedCount, listenerCalls,
                  completionSetValues, completionRequested, pauseFuture,
                  resumeCalls, timedOut, termFuture, mode_,
                  groupSplitsStores, splits, splitPromises,
                  storeNoMoreSplits, noMoreSplits, maxSequenceId,
                  seenSplitGroups_, queuedSplitGroups_, numTotalSplits,
                  numQueuedSplits, barrierRequested_, barrierFinishPromises_,
                  numDriversUnderBarrier_, numBarriers, driverBarrier,
                  gotBarrier, tbar, nextSplitId, handed, accepted,
                  acceptedSequenceId, barrierRequests, barrierThrown,
                  barrierFulfilled, finishCalls, yieldChecks,
                  ignoredTerminate, sinkState, sinkWrittenBytes, sinkError,
                  sinkCalls, planFragment_, numDriversPerSplitGroup_,
                  concurrentSplitGroups_, numRunningSplitGroups_,
                  splitGroupStates_, driverCtxs, partitionedOutputConsumed_,
                  pendingFinished, finishedChecks, lastCall, nextFuture,
                  nextHasBarrier, runnableDrivers, combined, nextCalls,
                  blocked_, error_, driverFuture, blocksMade,
                  promisesFulfilled, numRequested, barrierDrivers,
                  allPeersFinishedPromises, peerCalled, peerFuture, peers,
                  peerPromises, groupStarts, queue_, totalBytes_, maxBytes_,
                  numProducers_, producersFinished_, closed_,
                  consumerBlocked_, consumerFuture_,
                  producerUnblockPromises_, ppc, qpc, vector, mayContinue,
                  dequeueResult, enqueued, returned>>

\* The Drivers terminate(kFinished), called by removeDriver of Driver d,
\* finds off thread and closes.
serialOffThread(d) == {e \in Drivers : drivers_[e] /\ e # d}

\* Driver d of a serial task reaches the end of its input inside
\* Driver::next: Driver::close, Task::removeDriver and, when
\* checkIfFinishedLocked is true, terminate(kFinished), which closes the
\* other Drivers and fulfils the barrier promises.
serialClose(d) ==
  LET allFinished ==
        checkIfFinished(numFinishedDrivers_ + 1, numTotalDrivers_,
                        numFinishedOutputDrivers +
                          (IF d - 1 = outputPipelineId THEN 1 ELSE 0),
                        partitionedOutputConsumed_)
      off == IF allFinished THEN serialOffThread(d) ELSE {}
  IN /\ numFinishedOutputDrivers' =
          numFinishedOutputDrivers +
            (IF d - 1 = outputPipelineId THEN 1 ELSE 0)
     /\ drivers_' = [e \in Drivers |-> drivers_[e] /\ e # d /\ e \notin off]
     /\ closed' = [e \in Drivers |-> closed[e] \/ e = d \/ e \in off]
     /\ finishedCount' =
          [e \in Drivers |->
             finishedCount[e] + IF e = d \/ e \in off THEN 1 ELSE 0]
     /\ closeByTaskCount' =
          [e \in Drivers |-> closeByTaskCount[e] + IF e \in off THEN 1 ELSE 0]
     /\ numFinishedDrivers_' = numFinishedDrivers_ + 1 + Cardinality(off)
     /\ numRunningDrivers_' =
          IF allFinished THEN 0
          ELSE IF isRunningLocked THEN numRunningDrivers_ - 1
          ELSE numRunningDrivers_
     /\ IF allFinished
        THEN /\ state_' = "Finished"
             /\ terminateRequested_' = TRUE
             /\ numTotalDrivers_' = numDriversUngrouped_
             /\ isTerminated' =
                  [e \in Drivers |-> isTerminated[e] \/ e \in off]
             /\ thread' = [e \in Drivers |-> thread[e] \/ e \in off]
             /\ listenerCalls' = listenerCalls + 1
             /\ barrierFulfilled' = barrierFulfilled + barrierFinishPromises_
             /\ barrierFinishPromises_' = 0
        ELSE UNCHANGED <<state_, terminateRequested_, numTotalDrivers_,
                         isTerminated, thread, listenerCalls,
                         barrierFulfilled, barrierFinishPromises_>>

\* Task::finishDriverBarrier called by Driver d, which has drained the
\* barrier.
serialFinishDriverBarrier(d) ==
  /\ driverBarrier' = [driverBarrier EXCEPT ![d] = FALSE]
  /\ numDriversUnderBarrier_' = numDriversUnderBarrier_ - 1
  /\ finishCalls' = [finishCalls EXCEPT ![d] = @ + 1]
  /\ IF finishDriverBarrierEnds
     THEN /\ barrierFulfilled' = barrierFulfilled + barrierFinishPromises_
          /\ barrierFinishPromises_' = 0
          /\ barrierRequested_' = FALSE
     ELSE UNCHANGED <<barrierFinishPromises_, barrierRequested_,
                      barrierFulfilled>>

\* The loop of Task::next runs Driver d = nextI. Driver::next returns a
\* vector ("vector"); or nullptr with a future, the Driver being blocked
\* ("block"), after it has finished its part of the barrier
\* ("barrierBlock"); or nullptr after the Driver has closed itself
\* ("finish"). The error of the task is rethrown after the Driver has run.
SerialNextDriver(outcome) ==
  /\ nextPc = "visit"
  /\ nextI <= numDriversUngrouped_
  /\ runnable(nextI)
  /\ runnableDrivers' = runnableDrivers + 1
  /\ LET d == nextI
     IN /\ outcome \in {"block", "barrierBlock"} => blocksMade[d] < MaxBlocks
        /\ outcome = "barrierBlock" =>
             driverBarrier[d] /\ underBarrier /\ numDriversUnderBarrier_ > 0
        /\ IF outcome = "vector"
           THEN /\ nextPc' = "idle"
                /\ nextResult' = "vector"
                /\ UNCHANGED nextI
           ELSE IF exception_ # "none"
           THEN /\ nextPc' = "idle"
                /\ nextResult' = "failError"
                /\ UNCHANGED nextI
           ELSE /\ nextI' = nextI + 1
                /\ UNCHANGED <<nextPc, nextResult>>
        /\ IF outcome \in {"block", "barrierBlock"}
           THEN setDriverFuture(d)
           ELSE UNCHANGED <<blocked_, driverFuture, blocksMade>>
        /\ IF outcome = "barrierBlock"
           THEN serialFinishDriverBarrier(d)
           ELSE IF outcome = "finish"
           THEN UNCHANGED <<driverBarrier, numDriversUnderBarrier_,
                            finishCalls, barrierRequested_>>
           ELSE UNCHANGED <<driverBarrier, numDriversUnderBarrier_,
                            finishCalls, barrierRequested_,
                            barrierFinishPromises_, barrierFulfilled>>
        /\ IF outcome = "finish"
           THEN serialClose(d)
           ELSE UNCHANGED <<numFinishedOutputDrivers, drivers_, closed,
                            finishedCount, closeByTaskCount,
                            numFinishedDrivers_, numRunningDrivers_, state_,
                            terminateRequested_, numTotalDrivers_,
                            isTerminated, thread, listenerCalls>>
  /\ UNCHANGED <<exception_, pauseRequested_, toYield_, numThreads_,
                  numDriversUngrouped_, threadFinishPromises_,
                  taskCompletionPromises_, started, isEnqueued,
                  numSuspensions, hasBlockingFuture, queued, dpc, dret,
                  requeue, tst, toff, tprom, cpc, rpc, rounds, rMaxWait,
                  rOutcome, rClose, inDriver, completionSetValues,
                  completionRequested, pauseFuture, resumeCalls, timedOut,
                  termFuture, mode_, groupSplitsStores, splits,
                  splitPromises, storeNoMoreSplits, noMoreSplits,
                  maxSequenceId, seenSplitGroups_, queuedSplitGroups_,
                  numTotalSplits, numQueuedSplits, numBarriers, gotBarrier,
                  tbar, nextSplitId, handed, accepted, acceptedSequenceId,
                  barrierRequests, barrierThrown, yieldChecks,
                  ignoredTerminate, sinkState, sinkWrittenBytes, sinkError,
                  sinkCalls, planFragment_, numDriversPerSplitGroup_,
                  concurrentSplitGroups_, numRunningSplitGroups_,
                  splitGroupStates_, driverCtxs, partitionedOutputConsumed_,
                  pendingFinished, finishedChecks, lastCall, nextFuture,
                  nextHasBarrier, blockedDrivers, futures, combined,
                  nextCalls, promises_, error_, promisesMade,
                  promisesFulfilled, numRequested, barrierDrivers,
                  allPeersFinishedPromises, peerCalled, peerFuture, peers,
                  peerPromises, groupStarts, queue_, totalBytes_, maxBytes_,
                  numProducers_, producersFinished_, closed_,
                  consumerBlocked_, consumerFuture_,
                  producerUnblockPromises_, ppc, qpc, vector, mayContinue,
                  dequeueResult, enqueued, returned>>

\* How a pass of Task::next that ran no Driver ends the call, deciding by
\* the blocked Drivers alone.
nextReturnsNoBarrier(blockedCount, hasFuture, hasBarrier) ==
  IF blockedCount = 0 THEN "null"
  ELSE IF ~hasFuture THEN "failNoProgress"
  ELSE "nullWithFuture"

\* How a pass of Task::next that ran no Driver ends the call: nullptr
\* ("null"), nullptr with the caller's future set ("nullWithFuture"), or the
\* failure 'Cannot make progress ...' ("failNoProgress").
nextReturns(blockedCount, hasFuture, hasBarrier) ==
  IF blockedCount = 0 THEN "null"
  ELSE IF ~hasFuture THEN "failNoProgress"
  ELSE IF ~hasBarrier \/ underBarrier THEN "nullWithFuture"
  ELSE "null"

\* Task::next at the end of a pass over the Drivers: another pass when some
\* Driver ran, the end of the call otherwise; the future handed to the
\* caller joins the futures of this call that are not ready.
SerialNextEndPass ==
  /\ nextPc = "visit"
  /\ nextI > numDriversUngrouped_
  /\ runnableDrivers' = 0
  /\ blockedDrivers' = 0
  /\ IF runnableDrivers = 0
     THEN /\ nextPc' = "idle"
          /\ nextResult' =
               nextReturns(blockedDrivers, nextFuture, nextHasBarrier)
          /\ combined' =
               IF nextResult' = "nullWithFuture"
               THEN {d \in Drivers : futures[d] = "pending"}
               ELSE {}
          /\ UNCHANGED nextI
     ELSE /\ nextI' = 1
          /\ UNCHANGED <<nextPc, nextResult, combined>>
  /\ UNCHANGED <<state_, exception_, pauseRequested_, terminateRequested_,
                  toYield_, numThreads_, numRunningDrivers_,
                  numFinishedDrivers_, numTotalDrivers_,
                  numDriversUngrouped_, numFinishedOutputDrivers, drivers_,
                  threadFinishPromises_, taskCompletionPromises_, started,
                  isEnqueued, isTerminated, thread, numSuspensions,
                  hasBlockingFuture, closed, queued, dpc, dret, requeue, tst,
                  toff, tprom, cpc, rpc, rounds, rMaxWait, rOutcome, rClose,
                  inDriver, closeByTaskCount, finishedCount, listenerCalls,
                  completionSetValues, completionRequested, pauseFuture,
                  resumeCalls, timedOut, termFuture, mode_,
                  groupSplitsStores, splits, splitPromises,
                  storeNoMoreSplits, noMoreSplits, maxSequenceId,
                  seenSplitGroups_, queuedSplitGroups_, numTotalSplits,
                  numQueuedSplits, barrierRequested_, barrierFinishPromises_,
                  numDriversUnderBarrier_, numBarriers, driverBarrier,
                  gotBarrier, tbar, nextSplitId, handed, accepted,
                  acceptedSequenceId, barrierRequests, barrierThrown,
                  barrierFulfilled, finishCalls, yieldChecks,
                  ignoredTerminate, sinkState, sinkWrittenBytes, sinkError,
                  sinkCalls, planFragment_, numDriversPerSplitGroup_,
                  concurrentSplitGroups_, numRunningSplitGroups_,
                  splitGroupStates_, driverCtxs, partitionedOutputConsumed_,
                  pendingFinished, finishedChecks, lastCall, nextFuture,
                  nextHasBarrier, futures, nextCalls, blocked_, promises_,
                  error_, driverFuture, blocksMade, promisesMade,
                  promisesFulfilled, numRequested, barrierDrivers,
                  allPeersFinishedPromises, peerCalled, peerFuture, peers,
                  peerPromises, groupStarts, queue_, totalBytes_, maxBytes_,
                  numProducers_, producersFinished_, closed_,
                  consumerBlocked_, consumerFuture_,
                  producerUnblockPromises_, ppc, qpc, vector, mayContinue,
                  dequeueResult, enqueued, returned>>

\* Task::requestCancel on the running serial task.
SerialCancel ==
  /\ isRunningLocked
  /\ CallTerminate("Canceled")

SerialNext ==
  \/ \E hasFuture \in BOOLEAN, n \in 1..MaxDrivers :
       SerialNextBegin(hasFuture, n)
  \/ SerialNextCheck
  \/ \E outcome \in {"vector", "block", "barrierBlock", "finish"} :
       SerialNextDriver(outcome)
  \/ SerialNextEndPass
  \/ \E d \in Drivers, ok \in BOOLEAN : RealizeDriverFuture(d, ok)
  \/ \E n \in Leaves : NoMoreSplits(n)
  \/ RequestBarrier
  \/ SerialCancel
  \/ TerminateRest(CallerAgent)

SerialSpec == SerialInit /\ [][SerialNext]_vars

-----------------------------------------------------------------------------
(* Task::allPeersFinished for one plan node of the ungrouped pipeline,     *)
(* whose Drivers are the peers.                                            *)

\* Task::allPeersFinished returning true to the first caller.
allPeersFinishedFirst(requested, numPeers) == requested + 1 = 1

\* Task::allPeersFinished: TRUE when the call that finds 'requested' earlier
\* calls counted is the last of the 'numPeers' peers.
allPeersFinishedLast(requested, numPeers) == requested + 1 = numPeers

\* Task::allPeersFinished called by Driver d on its thread, with a future
\* or with nullptr.
AllPeersFinished(d, hasFuture) ==
  /\ dpc[d] = "run"
  /\ peerCalled[d] = "no"
  /\ IF exception_ # "none"
     THEN /\ peerCalled' = [peerCalled EXCEPT ![d] = "failed"]
          /\ UNCHANGED <<numRequested, barrierDrivers,
                         allPeersFinishedPromises, peerFuture, peers,
                         peerPromises>>
     ELSE IF allPeersFinishedLast(numRequested, numDriversUngrouped_)
     THEN /\ peerCalled' = [peerCalled EXCEPT ![d] = "true"]
          /\ peers' = barrierDrivers
          /\ peerPromises' = allPeersFinishedPromises
          /\ numRequested' = 0
          /\ barrierDrivers' = <<>>
          /\ allPeersFinishedPromises' = 0
          /\ UNCHANGED peerFuture
     ELSE /\ numRequested' = numRequested + 1
          /\ IF ~drivers_[d]
             THEN /\ peerCalled' = [peerCalled EXCEPT ![d] = "failed"]
                  /\ UNCHANGED <<barrierDrivers, allPeersFinishedPromises,
                                 peerFuture>>
             ELSE /\ peerCalled' = [peerCalled EXCEPT ![d] = "false"]
                  /\ IF hasFuture
                     THEN /\ barrierDrivers' = Append(barrierDrivers, d)
                          /\ allPeersFinishedPromises' =
                               allPeersFinishedPromises + 1
                          /\ peerFuture' = peerFuture \cup {d}
                     ELSE UNCHANGED <<barrierDrivers,
                                      allPeersFinishedPromises, peerFuture>>
          /\ UNCHANGED <<peers, peerPromises>>
  /\ UNCHANGED <<state_, exception_, pauseRequested_, terminateRequested_,
                  toYield_, numThreads_, numRunningDrivers_,
                  numFinishedDrivers_, numTotalDrivers_,
                  numDriversUngrouped_, numFinishedOutputDrivers, drivers_,
                  threadFinishPromises_, taskCompletionPromises_, started,
                  isEnqueued, isTerminated, thread, numSuspensions,
                  hasBlockingFuture, closed, queued, dpc, dret, requeue, tst,
                  toff, tprom, cpc, rpc, rounds, rMaxWait, rOutcome, rClose,
                  inDriver, closeByTaskCount, finishedCount, listenerCalls,
                  completionSetValues, completionRequested, pauseFuture,
                  resumeCalls, timedOut, termFuture, mode_,
                  groupSplitsStores, splits, splitPromises,
                  storeNoMoreSplits, noMoreSplits, maxSequenceId,
                  seenSplitGroups_, queuedSplitGroups_, numTotalSplits,
                  numQueuedSplits, barrierRequested_, barrierFinishPromises_,
                  numDriversUnderBarrier_, numBarriers, driverBarrier,
                  gotBarrier, tbar, nextSplitId, handed, accepted,
                  acceptedSequenceId, barrierRequests, barrierThrown,
                  barrierFulfilled, finishCalls, yieldChecks,
                  ignoredTerminate, sinkState, sinkWrittenBytes, sinkError,
                  sinkCalls, planFragment_, numDriversPerSplitGroup_,
                  concurrentSplitGroups_, numRunningSplitGroups_,
                  splitGroupStates_, driverCtxs, partitionedOutputConsumed_,
                  pendingFinished, finishedChecks, lastCall, nextPc, nextI,
                  nextFuture, nextHasBarrier, runnableDrivers,
                  blockedDrivers, futures, nextResult, combined, nextCalls,
                  blocked_, promises_, error_, driverFuture, blocksMade,
                  promisesMade, promisesFulfilled, groupStarts, queue_,
                  totalBytes_, maxBytes_, numProducers_, producersFinished_,
                  closed_, consumerBlocked_, consumerFuture_,
                  producerUnblockPromises_, ppc, qpc, vector, mayContinue,
                  dequeueResult, enqueued, returned>>

PeersNext ==
  \/ \E maxDrivers \in 1..MaxDrivers : StartFactories(maxDrivers)
  \/ StartDrivers
  \/ \E d \in Drivers : ThreadPick(d)
  \/ \E d \in Drivers, hasFuture \in BOOLEAN : AllPeersFinished(d, hasFuture)
  \/ CallSetError
  \/ TerminateLocked(CallerAgent)
  \/ TerminateRest(CallerAgent)

PeersSpec == Init /\ [][PeersNext]_vars

-----------------------------------------------------------------------------
(* TaskQueue (Cursor.cpp): the queue between the Drivers of a task, its    *)
(* producers, and the thread that reads the cursor, its consumer.          *)

\* The producers whose promise is in the sequence 'promises'.
promisedTo(promises) == {promises[i] : i \in 1..Len(promises)}

\* The sum of the bytes of the entries of 'q'.
RECURSIVE queuedBytes(_)
queuedBytes(q) == IF q = <<>> THEN 0 ELSE Head(q).bytes + queuedBytes(Tail(q))

\* The ids of the vectors of the entries of 'q', in order.
queuedIds(q) == [i \in 1..Len(q) |-> q[i].id]

\* enqueue and close waking the consumer: consumerPromise_.setValue().
wakeConsumer ==
  IF consumerBlocked_
  THEN consumerBlocked_' = FALSE /\ consumerFuture_' = "ready"
  ELSE UNCHANGED <<consumerBlocked_, consumerFuture_>>

\* TaskQueue::enqueue(nullptr, future): producer p has finished.
EnqueueEnd(p) ==
  /\ ppc[p] = "run"
  /\ ppc' = [ppc EXCEPT ![p] = "finished"]
  /\ producersFinished_' = producersFinished_ + 1
  /\ wakeConsumer
  /\ UNCHANGED <<state_, exception_, pauseRequested_, terminateRequested_,
                  toYield_, numThreads_, numRunningDrivers_,
                  numFinishedDrivers_, numTotalDrivers_,
                  numDriversUngrouped_, numFinishedOutputDrivers, drivers_,
                  threadFinishPromises_, taskCompletionPromises_, started,
                  isEnqueued, isTerminated, thread, numSuspensions,
                  hasBlockingFuture, closed, queued, dpc, dret, requeue, tst,
                  toff, tprom, cpc, rpc, rounds, rMaxWait, rOutcome, rClose,
                  inDriver, closeByTaskCount, finishedCount, listenerCalls,
                  completionSetValues, completionRequested, pauseFuture,
                  resumeCalls, timedOut, termFuture, mode_,
                  groupSplitsStores, splits, splitPromises,
                  storeNoMoreSplits, noMoreSplits, maxSequenceId,
                  seenSplitGroups_, queuedSplitGroups_, numTotalSplits,
                  numQueuedSplits, barrierRequested_, barrierFinishPromises_,
                  numDriversUnderBarrier_, numBarriers, driverBarrier,
                  gotBarrier, tbar, nextSplitId, handed, accepted,
                  acceptedSequenceId, barrierRequests, barrierThrown,
                  barrierFulfilled, finishCalls, yieldChecks,
                  ignoredTerminate, sinkState, sinkWrittenBytes, sinkError,
                  sinkCalls, planFragment_, numDriversPerSplitGroup_,
                  concurrentSplitGroups_, numRunningSplitGroups_,
                  splitGroupStates_, driverCtxs, partitionedOutputConsumed_,
                  pendingFinished, finishedChecks, lastCall, nextPc, nextI,
                  nextFuture, nextHasBarrier, runnableDrivers,
                  blockedDrivers, futures, nextResult, combined, nextCalls,
                  blocked_, promises_, error_, driverFuture, blocksMade,
                  promisesMade, promisesFulfilled, numRequested,
                  barrierDrivers, allPeersFinishedPromises, peerCalled,
                  peerFuture, peers, peerPromises, groupStarts, queue_,
                  totalBytes_, maxBytes_, numProducers_, closed_,
                  producerUnblockPromises_, qpc, vector, mayContinue,
                  dequeueResult, enqueued, returned>>

\* TaskQueue::enqueue: TRUE when the producer is told to wait for the
\* consumer, 'total' being totalBytes_ with the new entry.
enqueueBlocks(total, maxBytes) == total > maxBytes

\* TaskQueue::enqueue(vector, future) by producer p, the vector retaining
\* 'bytes' bytes. On a closed queue it throws.
Enqueue(p, bytes) ==
  /\ ppc[p] = "run"
  /\ Len(enqueued) < MaxVectors
  /\ IF closed_
     THEN /\ ppc' = [ppc EXCEPT ![p] = "threw"]
          /\ UNCHANGED <<queue_, totalBytes_, enqueued, consumerBlocked_,
                         consumerFuture_, producerUnblockPromises_>>
     ELSE /\ queue_' = Append(queue_, [id |-> Len(enqueued) + 1, bytes |-> bytes])
          /\ enqueued' = Append(enqueued, Len(enqueued) + 1)
          /\ totalBytes_' = totalBytes_ + bytes
          /\ wakeConsumer
          /\ IF enqueueBlocks(totalBytes_ + bytes, maxBytes_)
             THEN /\ producerUnblockPromises_' =
                       Append(producerUnblockPromises_, p)
                  /\ ppc' = [ppc EXCEPT ![p] = "blocked"]
             ELSE UNCHANGED <<producerUnblockPromises_, ppc>>
  /\ UNCHANGED <<state_, exception_, pauseRequested_, terminateRequested_,
                  toYield_, numThreads_, numRunningDrivers_,
                  numFinishedDrivers_, numTotalDrivers_,
                  numDriversUngrouped_, numFinishedOutputDrivers, drivers_,
                  threadFinishPromises_, taskCompletionPromises_, started,
                  isEnqueued, isTerminated, thread, numSuspensions,
                  hasBlockingFuture, closed, queued, dpc, dret, requeue, tst,
                  toff, tprom, cpc, rpc, rounds, rMaxWait, rOutcome, rClose,
                  inDriver, closeByTaskCount, finishedCount, listenerCalls,
                  completionSetValues, completionRequested, pauseFuture,
                  resumeCalls, timedOut, termFuture, mode_,
                  groupSplitsStores, splits, splitPromises,
                  storeNoMoreSplits, noMoreSplits, maxSequenceId,
                  seenSplitGroups_, queuedSplitGroups_, numTotalSplits,
                  numQueuedSplits, barrierRequested_, barrierFinishPromises_,
                  numDriversUnderBarrier_, numBarriers, driverBarrier,
                  gotBarrier, tbar, nextSplitId, handed, accepted,
                  acceptedSequenceId, barrierRequests, barrierThrown,
                  barrierFulfilled, finishCalls, yieldChecks,
                  ignoredTerminate, sinkState, sinkWrittenBytes, sinkError,
                  sinkCalls, planFragment_, numDriversPerSplitGroup_,
                  concurrentSplitGroups_, numRunningSplitGroups_,
                  splitGroupStates_, driverCtxs, partitionedOutputConsumed_,
                  pendingFinished, finishedChecks, lastCall, nextPc, nextI,
                  nextFuture, nextHasBarrier, runnableDrivers,
                  blockedDrivers, futures, nextResult, combined, nextCalls,
                  blocked_, promises_, error_, driverFuture, blocksMade,
                  promisesMade, promisesFulfilled, numRequested,
                  barrierDrivers, allPeersFinishedPromises, peerCalled,
                  peerFuture, peers, peerPromises, groupStarts, maxBytes_,
                  numProducers_, producersFinished_, closed_, qpc, vector,
                  mayContinue, dequeueResult, returned>>

\* The consumer calls TaskQueue::dequeue.
DequeueCall ==
  /\ qpc = "idle"
  /\ qpc' = "locked"
  /\ dequeueResult' = "none"
  /\ UNCHANGED <<state_, exception_, pauseRequested_, terminateRequested_,
                  toYield_, numThreads_, numRunningDrivers_,
                  numFinishedDrivers_, numTotalDrivers_,
                  numDriversUngrouped_, numFinishedOutputDrivers, drivers_,
                  threadFinishPromises_, taskCompletionPromises_, started,
                  isEnqueued, isTerminated, thread, numSuspensions,
                  hasBlockingFuture, closed, queued, dpc, dret, requeue, tst,
                  toff, tprom, cpc, rpc, rounds, rMaxWait, rOutcome, rClose,
                  inDriver, closeByTaskCount, finishedCount, listenerCalls,
                  completionSetValues, completionRequested, pauseFuture,
                  resumeCalls, timedOut, termFuture, mode_,
                  groupSplitsStores, splits, splitPromises,
                  storeNoMoreSplits, noMoreSplits, maxSequenceId,
                  seenSplitGroups_, queuedSplitGroups_, numTotalSplits,
                  numQueuedSplits, barrierRequested_, barrierFinishPromises_,
                  numDriversUnderBarrier_, numBarriers, driverBarrier,
                  gotBarrier, tbar, nextSplitId, handed, accepted,
                  acceptedSequenceId, barrierRequests, barrierThrown,
                  barrierFulfilled, finishCalls, yieldChecks,
                  ignoredTerminate, sinkState, sinkWrittenBytes, sinkError,
                  sinkCalls, planFragment_, numDriversPerSplitGroup_,
                  concurrentSplitGroups_, numRunningSplitGroups_,
                  splitGroupStates_, driverCtxs, partitionedOutputConsumed_,
                  pendingFinished, finishedChecks, lastCall, nextPc, nextI,
                  nextFuture, nextHasBarrier, runnableDrivers,
                  blockedDrivers, futures, nextResult, combined, nextCalls,
                  blocked_, promises_, error_, driverFuture, blocksMade,
                  promisesMade, promisesFulfilled, numRequested,
                  barrierDrivers, allPeersFinishedPromises, peerCalled,
                  peerFuture, peers, peerPromises, groupStarts, queue_,
                  totalBytes_, maxBytes_, numProducers_, producersFinished_,
                  closed_, consumerBlocked_, consumerFuture_,
                  producerUnblockPromises_, ppc, vector, mayContinue,
                  enqueued, returned>>

\* TaskQueue::dequeue taking the entry at the back of the queue.
dequeueBack(q) == Len(q)

\* TaskQueue::dequeue: the position in queue_ of the entry it takes
\* (queue_.front()).
dequeueFront(q) == 1

\* TaskQueue::dequeue: TRUE when it takes the producers' promises, 'total'
\* being totalBytes_ without the entry taken. The division is the integer
\* division of uint64_t.
dequeueReleases(total, maxBytes) == total < maxBytes \div 2

\* TaskQueue::dequeue, one pass of its loop under mutex_: on entry, and again
\* once consumerFuture_.wait() has returned.
DequeueLocked ==
  /\ \/ qpc = "locked"
     \/ qpc = "wait" /\ consumerFuture_ = "ready"
  /\ IF closed_
     THEN /\ qpc' = "idle"
          /\ dequeueResult' = "nullptr"
          /\ UNCHANGED <<queue_, totalBytes_, vector, mayContinue,
                         producerUnblockPromises_, consumerBlocked_,
                         consumerFuture_>>
     ELSE IF queue_ # <<>>
     THEN LET i == dequeueFront(queue_)
              result == queue_[i]
          IN /\ queue_' = RemoveAt(queue_, i)
             /\ totalBytes_' = totalBytes_ - result.bytes
             /\ vector' = result.id
             /\ IF dequeueReleases(totalBytes_ - result.bytes, maxBytes_)
                THEN /\ mayContinue' = producerUnblockPromises_
                     /\ producerUnblockPromises_' = <<>>
                ELSE UNCHANGED <<mayContinue, producerUnblockPromises_>>
             /\ qpc' = "unlocked"
             /\ UNCHANGED <<dequeueResult, consumerBlocked_, consumerFuture_>>
     ELSE IF numProducers_ # {} /\ numProducers_ = {producersFinished_}
     THEN /\ qpc' = "idle"
          /\ dequeueResult' = "nullptr"
          /\ UNCHANGED <<queue_, totalBytes_, vector, mayContinue,
                         producerUnblockPromises_, consumerBlocked_,
                         consumerFuture_>>
     ELSE /\ consumerBlocked_' = TRUE
          /\ consumerFuture_' = "pending"
          /\ qpc' = "unlocked"
          /\ UNCHANGED <<queue_, totalBytes_, vector, mayContinue,
                         producerUnblockPromises_, dequeueResult>>
  /\ UNCHANGED <<state_, exception_, pauseRequested_, terminateRequested_,
                  toYield_, numThreads_, numRunningDrivers_,
                  numFinishedDrivers_, numTotalDrivers_,
                  numDriversUngrouped_, numFinishedOutputDrivers, drivers_,
                  threadFinishPromises_, taskCompletionPromises_, started,
                  isEnqueued, isTerminated, thread, numSuspensions,
                  hasBlockingFuture, closed, queued, dpc, dret, requeue, tst,
                  toff, tprom, cpc, rpc, rounds, rMaxWait, rOutcome, rClose,
                  inDriver, closeByTaskCount, finishedCount, listenerCalls,
                  completionSetValues, completionRequested, pauseFuture,
                  resumeCalls, timedOut, termFuture, mode_,
                  groupSplitsStores, splits, splitPromises,
                  storeNoMoreSplits, noMoreSplits, maxSequenceId,
                  seenSplitGroups_, queuedSplitGroups_, numTotalSplits,
                  numQueuedSplits, barrierRequested_, barrierFinishPromises_,
                  numDriversUnderBarrier_, numBarriers, driverBarrier,
                  gotBarrier, tbar, nextSplitId, handed, accepted,
                  acceptedSequenceId, barrierRequests, barrierThrown,
                  barrierFulfilled, finishCalls, yieldChecks,
                  ignoredTerminate, sinkState, sinkWrittenBytes, sinkError,
                  sinkCalls, planFragment_, numDriversPerSplitGroup_,
                  concurrentSplitGroups_, numRunningSplitGroups_,
                  splitGroupStates_, driverCtxs, partitionedOutputConsumed_,
                  pendingFinished, finishedChecks, lastCall, nextPc, nextI,
                  nextFuture, nextHasBarrier, runnableDrivers,
                  blockedDrivers, futures, nextResult, combined, nextCalls,
                  blocked_, promises_, error_, driverFuture, blocksMade,
                  promisesMade, promisesFulfilled, numRequested,
                  barrierDrivers, allPeersFinishedPromises, peerCalled,
                  peerFuture, peers, peerPromises, groupStarts, maxBytes_,
                  numProducers_, producersFinished_, closed_, ppc, enqueued,
                  returned>>

\* TaskQueue::dequeue outside of mutex_: the promises of mayContinue are
\* fulfilled; the vector is returned, or the consumer waits on
\* consumerFuture_.
DequeueUnlocked ==
  /\ qpc = "unlocked"
  /\ ppc' = [p \in Producers |->
               IF p \in promisedTo(mayContinue) THEN "run" ELSE ppc[p]]
  /\ mayContinue' = <<>>
  /\ IF vector # 0
     THEN /\ returned' = Append(returned, vector)
          /\ dequeueResult' = "vector"
          /\ vector' = 0
          /\ qpc' = "idle"
     ELSE /\ qpc' = "wait"
          /\ UNCHANGED <<returned, dequeueResult, vector>>
  /\ UNCHANGED <<state_, exception_, pauseRequested_, terminateRequested_,
                  toYield_, numThreads_, numRunningDrivers_,
                  numFinishedDrivers_, numTotalDrivers_,
                  numDriversUngrouped_, numFinishedOutputDrivers, drivers_,
                  threadFinishPromises_, taskCompletionPromises_, started,
                  isEnqueued, isTerminated, thread, numSuspensions,
                  hasBlockingFuture, closed, queued, dpc, dret, requeue, tst,
                  toff, tprom, cpc, rpc, rounds, rMaxWait, rOutcome, rClose,
                  inDriver, closeByTaskCount, finishedCount, listenerCalls,
                  completionSetValues, completionRequested, pauseFuture,
                  resumeCalls, timedOut, termFuture, mode_,
                  groupSplitsStores, splits, splitPromises,
                  storeNoMoreSplits, noMoreSplits, maxSequenceId,
                  seenSplitGroups_, queuedSplitGroups_, numTotalSplits,
                  numQueuedSplits, barrierRequested_, barrierFinishPromises_,
                  numDriversUnderBarrier_, numBarriers, driverBarrier,
                  gotBarrier, tbar, nextSplitId, handed, accepted,
                  acceptedSequenceId, barrierRequests, barrierThrown,
                  barrierFulfilled, finishCalls, yieldChecks,
                  ignoredTerminate, sinkState, sinkWrittenBytes, sinkError,
                  sinkCalls, planFragment_, numDriversPerSplitGroup_,
                  concurrentSplitGroups_, numRunningSplitGroups_,
                  splitGroupStates_, driverCtxs, partitionedOutputConsumed_,
                  pendingFinished, finishedChecks, lastCall, nextPc, nextI,
                  nextFuture, nextHasBarrier, runnableDrivers,
                  blockedDrivers, futures, nextResult, combined, nextCalls,
                  blocked_, promises_, error_, driverFuture, blocksMade,
                  promisesMade, promisesFulfilled, numRequested,
                  barrierDrivers, allPeersFinishedPromises, peerCalled,
                  peerFuture, peers, peerPromises, groupStarts, queue_,
                  totalBytes_, maxBytes_, numProducers_, producersFinished_,
                  closed_, consumerBlocked_, consumerFuture_,
                  producerUnblockPromises_, enqueued>>

\* TaskQueue::close
QueueClose ==
  /\ closed_' = TRUE
  /\ ppc' = [p \in Producers |->
               IF p \in promisedTo(producerUnblockPromises_) THEN "run"
               ELSE ppc[p]]
  /\ producerUnblockPromises_' = <<>>
  /\ wakeConsumer
  /\ UNCHANGED <<state_, exception_, pauseRequested_, terminateRequested_,
                  toYield_, numThreads_, numRunningDrivers_,
                  numFinishedDrivers_, numTotalDrivers_,
                  numDriversUngrouped_, numFinishedOutputDrivers, drivers_,
                  threadFinishPromises_, taskCompletionPromises_, started,
                  isEnqueued, isTerminated, thread, numSuspensions,
                  hasBlockingFuture, closed, queued, dpc, dret, requeue, tst,
                  toff, tprom, cpc, rpc, rounds, rMaxWait, rOutcome, rClose,
                  inDriver, closeByTaskCount, finishedCount, listenerCalls,
                  completionSetValues, completionRequested, pauseFuture,
                  resumeCalls, timedOut, termFuture, mode_,
                  groupSplitsStores, splits, splitPromises,
                  storeNoMoreSplits, noMoreSplits, maxSequenceId,
                  seenSplitGroups_, queuedSplitGroups_, numTotalSplits,
                  numQueuedSplits, barrierRequested_, barrierFinishPromises_,
                  numDriversUnderBarrier_, numBarriers, driverBarrier,
                  gotBarrier, tbar, nextSplitId, handed, accepted,
                  acceptedSequenceId, barrierRequests, barrierThrown,
                  barrierFulfilled, finishCalls, yieldChecks,
                  ignoredTerminate, sinkState, sinkWrittenBytes, sinkError,
                  sinkCalls, planFragment_, numDriversPerSplitGroup_,
                  concurrentSplitGroups_, numRunningSplitGroups_,
                  splitGroupStates_, driverCtxs, partitionedOutputConsumed_,
                  pendingFinished, finishedChecks, lastCall, nextPc, nextI,
                  nextFuture, nextHasBarrier, runnableDrivers,
                  blockedDrivers, futures, nextResult, combined, nextCalls,
                  blocked_, promises_, error_, driverFuture, blocksMade,
                  promisesMade, promisesFulfilled, numRequested,
                  barrierDrivers, allPeersFinishedPromises, peerCalled,
                  peerFuture, peers, peerPromises, groupStarts, queue_,
                  totalBytes_, maxBytes_, numProducers_, producersFinished_,
                  qpc, vector, mayContinue, dequeueResult, enqueued,
                  returned>>

QueueNext ==
  \/ \E p \in Producers, bytes \in 1..MaxVectorBytes : Enqueue(p, bytes)
  \/ \E p \in Producers : EnqueueEnd(p)
  \/ DequeueCall
  \/ DequeueLocked
  \/ DequeueUnlocked
  \/ QueueClose

QueueSpec == QueueInit /\ [][QueueNext]_vars

-----------------------------------------------------------------------------
(* Properties of the thread protocol.                                      *)

\* C1: at most one thread at a time is between a Task::enter that returned
\* kNone and the matching Task::leave of a Driver; a Task::enter on a Driver
\* that is on thread or terminated neither marks it on thread again nor
\* increments numThreads_.
C1_EnterIsExclusive ==
  /\ [](\A d \in Drivers : inDriver[d] <= 1)
  /\ [][\A d \in Drivers :
          (isEnqueued[d] /\ ~isEnqueued'[d] /\ (thread[d] \/ isTerminated[d]))
            => /\ enterReason(d) =
                    IF isTerminated[d] THEN "kAlreadyTerminated"
                    ELSE "kAlreadyOnThread"
               /\ thread'[d] = thread[d]
               /\ numThreads_' = numThreads_
               /\ inDriver'[d] = inDriver[d]]_vars

\* An executor thread is about to call Task::enter on a Driver another thread
\* is running.
C1_Witness ==
  \E d \in Drivers :
    /\ queued[d] > 0 /\ ~closed[d] /\ isEnqueued[d]
    /\ thread[d] /\ ~isTerminated[d] /\ dpc[d] = "run"

\* C2: once state_ has left Running no step changes it.
C2_TerminalStateIsFinal ==
  [][state_ # "Running" => state_' = state_]_vars

\* A terminate() for another terminal state is about to run on a task that
\* has already terminated.
C2_Witness ==
  /\ state_ = "Canceled"
  /\ \E a \in Agents : tst[a] = "start" /\ pendingState(a) = "Failed"

-----------------------------------------------------------------------------
(* Properties of pause and resume.                                         *)

\* The future of requestPause() is fulfilled and Task::resume has not been
\* called since.
Paused == pauseRequested_ /\ pauseFuture = "ready"

\* What holds of every step taken while the task is paused, Task::enter
\* being allowed to return the StopReasons of 'reasons': no Driver comes on
\* thread and no outermost suspended section is left.
QuietWhilePaused(reasons) ==
  (Paused /\ pauseRequested_') =>
    \A d \in Drivers :
      /\ thread'[d] => thread[d]
      /\ inDriver'[d] <= inDriver[d]
      /\ suspended(d) => numSuspensions'[d] > 0
      /\ (isEnqueued[d] /\ ~isEnqueued'[d]) => enterReason(d) \in reasons

Runnable(d) ==
  \/ thread[d]
  \/ isEnqueued[d]
  \/ hasBlockingFuture[d]
  \/ requeue[d] > 0
  \/ isTerminated[d]

\* C4: after requestPause followed by Task::resume on a Running task, every
\* Driver still in drivers_ that is neither suspended nor terminated is
\* runnable; none is left off thread with nothing to enqueue it.
C4_ResumeLeavesNoDriverBehind ==
  (state_ = "Running" /\ ~pauseRequested_ /\ rounds > 0)
    => \A d \in Drivers : (drivers_[d] /\ ~suspended(d)) => Runnable(d)

\* C5: every reclaim() calls Task::resume exactly once, after requestPause,
\* whichever way it ends.
C5_ResumeExactlyOnce ==
  /\ rpc \in {"waitPause", "reclaim", "setErrorTerm", "resume"}
       => resumeCalls = 0
  /\ rpc = "resumeClose" => resumeCalls = 1
  /\ rpc = "idle" => resumeCalls = 0 /\ ~pauseRequested_

\* reclaim() is about to rethrow the exception of the pool-tree reclaim, having
\* called Task::resume.
C5_Witness ==
  rpc = "resumeClose" /\ rOutcome = "threw" /\ resumeCalls = 1

\* C6: after a reclaim() whose pause wait timed out has ended, pauseRequested_
\* is false and no Driver of the running task is left off thread with nothing
\* to enqueue it.
C6_TimeoutLeavesNoDriverBehind ==
  (timedOut /\ rpc = "idle" /\ state_ = "Running")
    => /\ ~pauseRequested_
       /\ \A d \in Drivers : (drivers_[d] /\ ~suspended(d)) => Runnable(d)

\* C7: when the pool-tree reclaim has thrown, Task::resume finds the task not
\* Running, so that it enqueues no Driver.
C7_FailedBeforeResume ==
  (rpc = "resume" /\ rOutcome = "threw") => state_ # "Running"

-----------------------------------------------------------------------------
(* Properties of terminate.                                                *)

\* Every terminate() that took effect has finished its notifications.
TerminateSettled ==
  state_ # "Running" /\ \A a \in Agents : tst[a] # "notify"

\* C8: whatever terminate() calls are made, Task::onTaskCompletion runs once
\* per task, every task-completion promise is fulfilled once (it is pending,
\* held by one notifier, or fulfilled), and no Driver is counted in
\* numFinishedDrivers_ twice.
C8_TerminateIsIdempotent ==
  /\ listenerCalls <= 1
  /\ completionSetValues + taskCompletionPromises_ + SumOver(tprom, Agents)
       = completionRequested
  /\ \A d \in Drivers : finishedCount[d] <= 1
  /\ TerminateSettled =>
       listenerCalls = 1 /\ completionSetValues = completionRequested

\* The external caller has called terminate() on a task that finished or
\* failed by itself; the listeners were told once and the one completion
\* promise is fulfilled.
C8_Witness ==
  /\ state_ \in {"Finished", "Failed"}
  /\ termFuture # "none"
  /\ TerminateSettled
  /\ listenerCalls = 1
  /\ completionSetValues = 1
  /\ \E d \in Drivers : finishedCount[d] = 1

\* A Driver of the task no thread is on and that is not terminated.
OffThread(d) == drivers_[d] /\ ~thread[d] /\ ~isTerminated[d]

\* C9: no Driver is closed by the Task twice or counted as finished twice; a
\* terminate() that runs while a pause is requested leaves the off-thread
\* Drivers as they are, and the Task::resume that follows collects them and
\* closes them.
C9_ClosedByTaskOnce ==
  /\ [](\A d \in Drivers : closeByTaskCount[d] <= 1 /\ finishedCount[d] <= 1)
  /\ [][(state_ = "Running" /\ state_' # "Running" /\ pauseRequested_) =>
          \A d \in Drivers :
            OffThread(d) =>
              /\ drivers_'[d] /\ ~thread'[d] /\ ~isTerminated'[d]
              /\ finishedCount'[d] = finishedCount[d]
              /\ \A a \in Agents : d \notin toff'[a]]_vars
  /\ [][(pauseRequested_ /\ ~pauseRequested_' /\ state_ # "Running") =>
          \A d \in Drivers :
            OffThread(d) =>
              /\ d \in rClose' /\ isTerminated'[d] /\ ~drivers_'[d]
              /\ finishedCount'[d] = finishedCount[d] + 1]_vars
  /\ [][(rpc = "resumeClose" /\ rpc' = "idle") =>
          \A d \in rClose :
            closed'[d] /\ closeByTaskCount'[d] = closeByTaskCount[d] + 1]_vars

\* Task::resume has collected, to close it, a Driver that the terminate() of
\* the paused task had left alone.
C9_Witness ==
  /\ state_ # "Running"
  /\ rpc = "resumeClose"
  /\ \E d \in rClose : closeByTaskCount[d] = 0 /\ finishedCount[d] = 1

\* C10 (as stated): the future returned by terminate() is not fulfilled while
\* a thread is still inside a Driver.
C10_AsStated ==
  termFuture = "ready" => \A d \in Drivers : inDriver[d] = 0

\* C10 (amended): when the future returned by terminate() is fulfilled,
\* numThreads_ is 0 and the only threads inside a Driver are in a suspended
\* section; and a thread that leaves a terminated Driver has closed it
\* before it is counted as having left.
C10_FutureWaitsForCountedThreads ==
  /\ [][(termFuture # "ready" /\ termFuture' = "ready") =>
          /\ numThreads_' = 0
          /\ \A d \in Drivers :
               inDriver'[d] > 0 => numSuspensions'[d] > 0]_vars
  /\ [][\A d \in Drivers :
          (inDriver'[d] < inDriver[d] /\ isTerminated'[d]) => closed[d]]_vars
  /\ [](\A d \in Drivers : dpc[d] = "leaveFin" => closed[d] /\ thread[d])

\* The future of terminate() is pending while a thread that saw the
\* termination in Task::leave has run the close callback and is still counted.
C10_Witness ==
  /\ termFuture = "pending"
  /\ \E d \in Drivers : dpc[d] = "leaveFin" /\ closed[d] /\ numThreads_ = 1

-----------------------------------------------------------------------------
(* Properties of error propagation.                                        *)

\* C11: once Task::setError has stored an exception, no step replaces it.
C11_FirstErrorWins ==
  [][exception_ = "error" => exception_' = "error"]_vars

\* C12: when Task::setError has stored its exception on a Running task, the
\* state the task leaves Running for is Failed.
C12_StoredErrorFailsTask ==
  [][(exception_ = "error" /\ state_ = "Running")
       => state_' \in {"Running", "Failed"}]_vars

-----------------------------------------------------------------------------
(* Properties of split feeding.                                            *)

\* The places of data split i in the split stores.
QueuedAt(i) ==
  {p \in Leaves \X StoreIds \X (1..(MaxSplits + MaxBarriers)) :
     /\ p[3] <= Len(splits[p[1]][p[2]])
     /\ ~splits[p[1]][p[2]][p[3]].barrier
     /\ splits[p[1]][p[2]][p[3]].id = i}

\* C13: while the task is Running every data split accepted by addSplit or
\* addSplitWithSequence is either queued, in one place, or was returned by
\* getSplitOrFuture, once; a split that was not accepted is neither.
C13_SplitsHandedOutOnce ==
  state_ = "Running" =>
    \A i \in SplitIds :
      /\ Cardinality(QueuedAt(i)) + handed[i] = IF i \in accepted THEN 1 ELSE 0

\* getSplitOrFuture has returned the second split of a store ahead of the
\* first, which is still queued.
C13_Witness ==
  /\ state_ = "Running"
  /\ accepted = {1, 2}
  /\ handed[2] = 1 /\ handed[1] = 0
  /\ Cardinality(QueuedAt(1)) = 1

C15_DroppedSplitChangesNothing ==
  /\ [][\A n \in Leaves, g \in StoreIds, s \in 0..MaxSequenceId :
          (AddSplitWithSequence(n, g, s) /\ s <= maxSequenceId[n])
            => /\ ~addedWithSequence(n, s)
               /\ UNCHANGED <<splits, splitPromises, groupSplitsStores,
                              storeNoMoreSplits, noMoreSplits,
                              seenSplitGroups_, queuedSplitGroups_,
                              numTotalSplits, numQueuedSplits>>]_vars
  /\ [][\A n \in Leaves : maxSequenceId'[n] >= maxSequenceId[n]]_vars

\* The first split offered to a Running task, on which a Driver waits for a
\* split, was dropped after maxSequenceId had been raised.
C15_Witness ==
  /\ state_ = "Running" /\ numBarriers = 0
  /\ nextSplitId = 1 /\ accepted = {}
  /\ numSplitPromises = 1
  /\ \E n \in Leaves : maxSequenceId[n] = MaxSequenceId

-----------------------------------------------------------------------------
(* Properties of split waiters and barriers.                               *)

\* C16: once the task has left Running and every terminate() call has
\* finished its notifications, no split store holds a waiter promise:
\* terminate has fulfilled every future that getSplitOrFuture returned with
\* kWaitForSplit.
C16_TerminateReleasesSplitWaiters ==
  TerminateSettled => numSplitPromises = 0

\* A step fulfils a future that requestBarrier returned.
BarrierFutureFulfilled == barrierFulfilled' > barrierFulfilled

\* Every Driver of the task has called finishDriverBarrier once in the
\* barrier round and none is left under the barrier.
BarrierRoundDone ==
  /\ numDriversUnderBarrier_' = 0
  /\ \A d \in TaskDrivers : finishCalls'[d] = 1

C18_SecondRequestJoinsTheRound ==
  /\ [][(RequestBarrier /\ ensureBarrierSupport /\ isRunningLocked
           /\ barrierRequested_)
          => /\ UNCHANGED <<splits, splitPromises, numBarriers, numQueuedSplits,
                            driverBarrier, numDriversUnderBarrier_,
                            finishCalls, barrierFulfilled>>
             /\ barrierRequested_'
             /\ startBarrierLeavesPass
                  => barrierFinishPromises_' = barrierFinishPromises_ + 1]_vars
  /\ [][barrierFinishPromises_' < barrierFinishPromises_
          => /\ barrierFinishPromises_' = 0
             /\ \/ barrierFulfilled' = barrierFulfilled + barrierFinishPromises_
                \/ \E a \in Agents : tbar'[a] = barrierFinishPromises_]_vars
  /\ [][\A a \in Agents : tbar'[a] < tbar[a]
          => tbar'[a] = 0 /\ barrierFulfilled' = barrierFulfilled + tbar[a]]_vars

\* Two requestBarrier calls were answered by one barrier round on a Running
\* task: both futures are fulfilled and numBarriers is 1.
C18_Witness ==
  /\ state_ = "Running"
  /\ barrierRequests = 2 /\ numBarriers = 1
  /\ barrierFulfilled = 2 /\ ~barrierRequested_

ReturnedIndex(q, q2) ==
  CHOOSE r \in 1..Len(q) :
    \A j \in 1..Len(q2) : q2[j].id = RemoveAt(q, r)[j].id

\* C20: whatever maxPreloadSplits is, the split that getSplitOrFuture takes
\* out of a store is a barrier split only when no data split stands before
\* it in the store, and a data split only when no barrier split stands
\* before it; and no barrier split is ever given to the preload callback, its
\* dataSource staying unset.
C20_BarrierSplitsKeepTheirPlace ==
  /\ [][\A n \in Leaves, g \in StoreIds :
          Len(splits'[n][g]) = Len(splits[n][g]) - 1
            => LET q == splits[n][g]
                   r == ReturnedIndex(q, splits'[n][g])
               IN \A j \in 1..(r - 1) : q[j].barrier = q[r].barrier]_vars
  /\ [](\A n \in Leaves, g \in StoreIds :
          \A i \in 1..Len(splits[n][g]) :
            splits[n][g][i].barrier => splits[n][g][i].dataSource = "none")

\* The Driver was handed both data splits and then the barrier split that
\* was queued behind them, on a task that is still Running.
C20_Witness ==
  /\ state_ = "Running"
  /\ accepted = SplitIds
  /\ \A i \in SplitIds : handed[i] = 1
  /\ \E d \in Drivers : gotBarrier[d]

\* The ids of the splits of queue q, in their order.
SplitIdsOf(q) == [j \in 1..Len(q) |-> q[j].id]

\* C28: a getSplitOrFuture call on a store that holds splits, made with
\* maxPreloadSplits <= 0 or finding no split with a loaded dataSource among
\* the first maxPreloadSplits queued splits, takes the split at the head of
\* the store and leaves the others in their order; and addSplit only appends
\* to a store, so that without ready preloads the splits of a store are
\* handed out in the order they were added.
C28_FifoWithoutReadyPreload ==
  /\ [][\A d \in Leaves, g \in StoreIds, k \in 0..MaxPreload :
          /\ GetSplitOrFuture(d, g, k)
          /\ splits[d][g] # <<>>
          /\ \/ k <= 0
             \/ \A i \in 1..Min(Len(splits[d][g]), k) :
                  splits[d][g][i].dataSource # "ready"
          => SplitIdsOf(splits'[d][g]) = Tail(SplitIdsOf(splits[d][g]))]_vars
  /\ [][\A n \in Leaves, g \in StoreIds :
          Len(splits'[n][g]) > Len(splits[n][g])
            => /\ Len(splits'[n][g]) = Len(splits[n][g]) + 1
               /\ SplitIdsOf(SubSeq(splits'[n][g], 1, Len(splits[n][g])))
                    = SplitIdsOf(splits[n][g])]_vars

\* With maxPreloadSplits > 0 the first of two queued splits was handed out
\* while the preload of the second, started by that call, has not finished.
C28_Witness ==
  /\ state_ = "Running"
  /\ handed[1] = 1 /\ handed[2] = 0
  /\ \E n \in Leaves, g \in StoreIds :
       /\ Len(splits[n][g]) = 1
       /\ splits[n][g][1].id = 2
       /\ ~splits[n][g][1].barrier
       /\ splits[n][g][1].dataSource = "loading"

-----------------------------------------------------------------------------
(* Properties of suspension and yield.                                     *)

\* C29: on one Driver thread, nested enterSuspended/leaveSuspended pairs
\* change numThreads_ only at the outermost level: a step that takes
\* numSuspensions from 0 to 1 decrements numThreads_, a step that takes it
\* from 1 to 0 increments it, and every other change of numSuspensions leaves
\* numThreads_ as it is.
C29_OnlyOutermostSuspensionCounts ==
  [][\A d \in Drivers :
       /\ numSuspensions'[d] = numSuspensions[d] + 1
            => numThreads_' = IF numSuspensions[d] = 0 THEN numThreads_ - 1
                              ELSE numThreads_
       /\ numSuspensions'[d] = numSuspensions[d] - 1
            => numThreads_' = IF numSuspensions'[d] = 0 THEN numThreads_ + 1
                              ELSE numThreads_
       /\ numSuspensions'[d] \in {numSuspensions[d] - 1, numSuspensions[d],
                                  numSuspensions[d] + 1}]_vars

\* A Driver thread is inside two nested suspended sections and is not
\* counted in numThreads_.
C29_Witness ==
  /\ state_ = "Running"
  /\ \E d \in Drivers : thread[d] /\ numSuspensions[d] = 2
  /\ numThreads_ = 0

\* C30: after yieldIfDue has set toYield_ to the number n of threads on the
\* task, and with no pause or terminate requested, each of these n threads is
\* returned kYield by shouldStopLocked exactly once: no thread is returned
\* kYield a second time, and once all n tokens of toYield_ are used up no
\* thread that was counted is left without its kYield.
C30_EachThreadYieldsOnce ==
  /\ ~pauseRequested_
  /\ ~terminateRequested_
  => \A d \in Drivers :
       /\ yieldChecks[d] # "twice"
       /\ toYield_ = 0 => yieldChecks[d] # "due"

-----------------------------------------------------------------------------
(* Properties of the terminal states.                                      *)

\* C26: a terminate() call that asks for the terminal state the task is
\* already in fails with an error: no such call returns normally with a
\* future.
C26_SameStateTerminateFails == ~ignoredTerminate

\* C27: CLOSED and ABORTED are absorbing states of the data sink: a close()
\* or abort() made in one of them throws 'Unexpected state transition from
\* <state> to CLOSED / ABORTED', an appendData throws 'Hive data sink is not
\* running', and whatever is called the sink stays in that state.
C27_ClosedAndAbortedAreAbsorbing ==
  [][(sinkState \in {"CLOSED", "ABORTED"}) =>
       (/\ sinkState' = sinkState
        /\ SinkClose =>
             sinkError' = <<"Unexpected state transition from", sinkState,
                            "to", "CLOSED">>
        /\ SinkAbort =>
             sinkError' = <<"Unexpected state transition from", sinkState,
                            "to", "ABORTED">>
        /\ SinkAppendData =>
             sinkError' = <<"Hive data sink is not running">>)]_vars

\* A data sink aborted without any input has since refused a close(), an
\* abort() and an appendData, and reports no written bytes.
C27_Witness ==
  /\ sinkState = "ABORTED"
  /\ sinkWrittenBytes = 0
  /\ numWrittenBytes = 0
  /\ sinkCalls = 4
  /\ sinkError = <<"Hive data sink is not running">>

-----------------------------------------------------------------------------
(* Properties of the driver counters of a task run by its plan.            *)

C22_AsStated ==
  [][finishedChecks' # finishedChecks
       => numFinishedDrivers_' = numTotalDrivers_']_vars

\* C22: a step in which checkIfFinishedLocked returns true is taken on a
\* running task whose partitioned output, if it has one, is consumed, and
\* ends with numFinishedDrivers_ = numTotalDrivers_ or, in ungrouped
\* execution, with all Drivers of the output pipeline finished.
C22_FinishedOnCountersOrOutput ==
  [][finishedChecks' # finishedChecks
       => /\ state_ = "Running"
          /\ hasPartitionedOutput => partitionedOutputConsumed_'
          /\ \/ numFinishedDrivers_' = numTotalDrivers_'
             \/ /\ isUngroupedExecution
                /\ splitGroupStates_'[kUngroupedGroupId]
                       .numFinishedOutputDrivers
                     = numDrivers(outputPipelineId)]_vars

\* removeDriver of the last Driver of the output pipeline has found the
\* task finished while a Driver of the other pipeline is still running.
C22_Witness ==
  /\ state_ = "Running"
  /\ lastCall = "removeDriver"
  /\ finishedChecks = 1
  /\ pendingFinished = 1
  /\ numFinishedDrivers_ < numTotalDrivers_
  /\ driverCtxs # {}

\* C23: checkIfFinishedLocked returns true at most once in the life of a
\* task.
C23_FinishedAtMostOnce == finishedChecks <= 1

\* C25: no step taken on a task that has left Running creates or enqueues a
\* Driver: drivers_ gains no Driver, numRunningDrivers_ and the number of
\* running split groups do not grow, no split group is taken from
\* queuedSplitGroups_ or added to seenSplitGroups_, and start() does not
\* get to start Drivers.
C25_NoDriverAfterTerminalState ==
  [][state_ # "Running"
       => /\ driverCtxs' \subseteq driverCtxs
          /\ numRunningDrivers_' <= numRunningDrivers_
          /\ numRunningSplitGroups_' <= numRunningSplitGroups_
          /\ queuedSplitGroups_' = queuedSplitGroups_
          /\ seenSplitGroups_' = seenSplitGroups_
          /\ started' # "yes" \/ started = "yes"]_vars

\* On a cancelled task the last Driver of the running split group was
\* removed, which freed its slot, and the queued split group was not
\* started.
C25_Witness ==
  /\ state_ = "Canceled"
  /\ lastCall = "removeDriver"
  /\ queuedSplitGroups_ # <<>>
  /\ numRunningSplitGroups_ < concurrentSplitGroups_
  /\ driverCtxs = {}

\* Every leaf has received noMoreSplits and every Driver the started task
\* has created, for the split groups seen and for the ungrouped pipelines,
\* has finished, no split group waits to be started, and the partitioned
\* output, if any, is consumed.
AllWorkDone ==
  /\ ~isUngroupedExecution
  /\ started = "yes"
  /\ \A n \in Leaves : noMoreSplits[n]
  /\ driverCtxs = {}
  /\ queuedSplitGroups_ = <<>>
  /\ hasPartitionedOutput => partitionedOutputConsumed_

\* C24: in grouped execution, once all work is done the task eventually
\* becomes Finished (unless it was cancelled), in whatever order start(),
\* addSplit and noMoreSplits were called.
C24_GroupedTaskEventuallyFinishes ==
  AllWorkDone ~> state_ \in {"Finished", "Canceled"}

-----------------------------------------------------------------------------
(* Properties of removeDriver and of the running counters                  *)

\* C34: a removeDriver call for a Driver that is no longer in drivers_
\* changes no driver counter, and the terminate call it ends with moves a
\* Running task to Finished only if checkIfFinishedLocked holds, i.e. the
\* Drivers of the task have finished.
C34_NotFoundKeepsTaskRunning ==
  [][/\ (\A d \in Drivers : CallRemoveDriver(d) =>
           /\ numFinishedDrivers_' = numFinishedDrivers_
           /\ numRunningDrivers_' = numRunningDrivers_)
     /\ (CallRemoveTerminate /\ state_ = "Running" /\ state_' = "Finished" =>
           checkIfFinishedLocked(numFinishedDrivers_,
                                 numFinishedOutputDrivers))]_vars

\* C35: numRunningDrivers_ is never negative; in a Running task it is the
\* number of Drivers that were started and are not yet closed, in parallel
\* and in serial mode; it is 0 once terminate has run.
C35_RunningDriversAreCounted ==
  /\ numRunningDrivers_ >= 0
  /\ (isRunningLocked /\ started = "yes") =>
       numRunningDrivers_ = Cardinality({d \in TaskDrivers : ~closed[d]})
  /\ terminateRequested_ => numRunningDrivers_ = 0

-----------------------------------------------------------------------------
(* Properties of serial execution                                          *)

\* Task::next takes a step of its loop.
NextLoopStep == nextPc = "visit" /\ (nextI' # nextI \/ nextPc' # nextPc)

\* C31: when the future given to setDriverFuture is realized with an
\* exception, the error is stored and the waiter promises registered by
\* earlier blocked() calls are all fulfilled; the next blocked() call
\* rethrows, so that Task::next fails at that Driver instead of counting it
\* as runnable or blocked.
C31_ErrorIsStoredAndRethrown ==
  [][/\ \A d \in Drivers :
          (driverFuture[d] = "pending" /\ driverFuture'[d] = "none"
             /\ error_'[d]) =>
            /\ promises_'[d] = 0
            /\ promisesFulfilled'[d] = promisesMade[d]
            /\ ~blocked_'[d]
     /\ (/\ NextLoopStep
         /\ nextI <= numDriversUngrouped_
         /\ drivers_[nextI] /\ futures[nextI] = "ready" /\ error_[nextI]) =>
          /\ nextPc' = "idle" /\ nextResult' = "failError"
          /\ runnableDrivers' = runnableDrivers
          /\ blockedDrivers' = blockedDrivers
          /\ promisesMade' = promisesMade]_vars

\* A call of Task::next has failed with the stored error of a Driver whose
\* waiter promise had been fulfilled.
C31_Witness ==
  /\ nextResult = "failError"
  /\ \E d \in Drivers : error_[d] /\ promisesFulfilled[d] > 0

\* The pass of Task::next ends the call, no Driver having been runnable.
NextEndsBlocked ==
  /\ nextPc = "visit" /\ nextPc' = "idle"
  /\ nextI > numDriversUngrouped_
  /\ runnableDrivers = 0

\* C32 as stated: a pass with no runnable and some blocked Driver fails
\* when the caller gave no future and otherwise returns null with the
\* combined future; null without a future is returned only when every
\* Driver has finished.
C32_AsStated ==
  [][NextEndsBlocked =>
       /\ blockedDrivers > 0 =>
            IF ~nextFuture THEN nextResult' = "failNoProgress"
            ELSE /\ nextResult' = "nullWithFuture"
                 /\ combined' = {d \in Drivers : futures[d] = "pending"}
       /\ nextResult' = "null" => \A d \in Drivers : ~drivers_[d]]_vars

\* C32: the same, except that a call which began under a barrier that has
\* ended by the end of the pass returns null without a future although
\* Drivers are blocked.
C32_NullFutureOrBarrierEnd ==
  [][NextEndsBlocked =>
       LET barrierEnded == nextHasBarrier /\ ~underBarrier
       IN /\ blockedDrivers > 0 =>
               IF ~nextFuture THEN nextResult' = "failNoProgress"
               ELSE IF barrierEnded
               THEN nextResult' = "null" /\ combined' = {}
               ELSE /\ nextResult' = "nullWithFuture"
                    /\ combined' = {d \in Drivers : futures[d] = "pending"}
          /\ blockedDrivers = 0 =>
               /\ nextResult' = "null"
               /\ \A d \in Drivers : ~drivers_[d]]_vars

\* A call that began under a barrier has returned null without a future
\* while a Driver is blocked.
C32_Witness ==
  /\ nextPc = "idle" /\ nextResult = "null" /\ nextFuture
  /\ \E d \in Drivers : drivers_[d] /\ blocked_[d]

-----------------------------------------------------------------------------
(* Properties of allPeersFinished                                          *)

\* The peers whose call of allPeersFinished has returned 'r'.
PeersCalled(r) == {d \in Drivers : peerCalled[d] = r}

\* C37: of the peers of a plan node that call allPeersFinished, at most one
\* call returns true; it is the last of the numDrivers peers, all earlier
\* calls having returned false, and it is handed the Drivers and the
\* promises of exactly the earlier callers that passed a future; a call made
\* after the task has recorded an error fails.
C37_LastPeerGetsTheOthers ==
  [][/\ Cardinality(PeersCalled("true"))' <= 1
     /\ (PeersCalled("true")' # {} =>
           /\ PeersCalled("false")' = TaskDrivers' \ PeersCalled("true")'
           /\ {peers'[i] : i \in 1..Len(peers')} = peerFuture'
           /\ Len(peers') = Cardinality(peerFuture')
           /\ peerPromises' = Cardinality(peerFuture'))
     /\ (TaskDrivers' # {} => PeersCalled("false")' # TaskDrivers')
     /\ \A d \in Drivers :
          (peerCalled[d] = "no" /\ peerCalled'[d] # "no") =>
            (peerCalled'[d] = "failed" <=> exception_ # "none")]_vars

\* Two peers have called: the first passed a future and got false, the
\* second got true and the first one's Driver and promise.
C37_Witness ==
  /\ Cardinality(PeersCalled("false")) = 1
  /\ Cardinality(PeersCalled("true")) = 1
  /\ Len(peers) = 1 /\ peerPromises = 1

-----------------------------------------------------------------------------
(* Properties of the split groups                                          *)

\* C33: numRunningSplitGroups_ never exceeds concurrentSplitGroups_, the
\* Drivers of a split group are created at most once, and a split group is
\* queued at most once, when its first split is added.
C33_SplitGroupsWithinLimit ==
  /\ numRunningSplitGroups_ <= concurrentSplitGroups_
  /\ \A g \in SplitGroupIds :
       /\ groupStarts[g] <= 1
       /\ Cardinality({i \in 1..Len(queuedSplitGroups_) :
                         queuedSplitGroups_[i] = g}) + groupStarts[g] <= 1
       /\ (groupStarts[g] = 1 \/ \E i \in 1..Len(queuedSplitGroups_) :
                                    queuedSplitGroups_[i] = g) =>
            g \in seenSplitGroups_

\* Two split groups were added to a started task that runs one at a time:
\* one has its Drivers, the other waits in the queue.
C33_Witness ==
  /\ concurrentSplitGroups_ = 1 /\ numRunningSplitGroups_ = 1
  /\ Len(queuedSplitGroups_) = 1
  /\ \E g \in SplitGroupIds : groupStarts[g] = 1

-----------------------------------------------------------------------------
(* Properties of the split counters                                        *)

\* The number of data splits held in the split stores of the task.
numDataSplitsHeld ==
  Cardinality({p \in Leaves \X StoreIds \X (1..(MaxSplits + MaxBarriers)) :
                 /\ p[3] <= Len(splits[p[1]][p[2]])
                 /\ ~splits[p[1]][p[2]][p[3]].barrier})

\* C36: taskStats_.numQueuedSplits is never negative and equals the number
\* of data (non-barrier) splits held in the split stores of the task, also
\* after barrier splits were queued and consumed.
C36_QueuedCounterMatchesStores ==
  /\ numQueuedSplits >= 0
  /\ numQueuedSplits = numDataSplitsHeld

-----------------------------------------------------------------------------
(* Properties of TaskQueue                                                 *)

\* C38: dequeue returns the enqueued vectors in enqueue order, each once
\* (the vectors returned followed by the vectors queued are the vectors
\* enqueued); it returns nullptr only when the queue is closed, or is empty
\* with producersFinished_ equal to the declared number of producers; and
\* totalBytes_ is the sum of the bytes of the queued entries.
C38_DequeueInOrderAndNullAtEnd ==
  [][/\ (returned \o (IF vector = 0 THEN <<>> ELSE <<vector>>)
           \o queuedIds(queue_))' = enqueued'
     /\ totalBytes_' = queuedBytes(queue_')
     /\ (dequeueResult = "none" /\ dequeueResult' = "nullptr") =>
          \/ closed_
          \/ /\ queue_ = <<>>
             /\ numProducers_ = {producersFinished_}]_vars

\* Three vectors were enqueued; dequeue has returned them in order and then,
\* the queue being empty with every producer finished, nullptr.
C38_Witness ==
  /\ ~closed_
  /\ Len(enqueued) = 3 /\ returned = <<1, 2, 3>>
  /\ numProducers_ = {producersFinished_}
  /\ dequeueResult = "nullptr"

\* C39: no reachable state has a producer waiting on an unblock promise
\* while the consumer waits on the empty queue, whatever maxBytes_ is.
C39_NoProducerWaitsOnEmptyQueue ==
  ~ /\ qpc = "wait" /\ consumerFuture_ = "pending"
    /\ queue_ = <<>>
    /\ \E p \in Producers :
         ppc[p] = "blocked" /\ p \in promisedTo(producerUnblockPromises_)

\* The same for a queue whose maxBytes_ is at least 2.
C39_FromTwoBytesOn == maxBytes_ >= 2 => C39_NoProducerWaitsOnEmptyQueue

-----------------------------------------------------------------------------
(* Properties of the thread counter                                        *)

\* The Drivers whose thread was returned kNone by Task::enter, has not left
\* through Task::leave and is not inside a suspended section.
countedThreads == {d \in Drivers : inDriver[d] > 0 /\ numSuspensions[d] = 0}

\* C40: numThreads_ is never negative and equals the number of Drivers whose
\* thread got kNone from Task::enter and has neither called Task::leave nor
\* is inside a suspended section; a Driver put on thread by terminate or
\* resume to be closed by the Task is not counted.
C40_ThreadsCounted ==
  /\ numThreads_ >= 0
  /\ numThreads_ = Cardinality(countedThreads)

\* The task was terminated while the thread of one Driver was inside a
\* suspended section and the other Driver was off thread: the Task has put
\* the second on thread and closed it, and neither is counted.
C40_Witness ==
  /\ numThreads_ = 0
  /\ \E d \in Drivers : inDriver[d] > 0 /\ numSuspensions[d] > 0
  /\ \E d \in Drivers :
       thread[d] /\ inDriver[d] = 0 /\ closeByTaskCount[d] > 0

=============================================================================
